---- MODULE Spec2Model ----
(***************************************************************************)
(* A model of stripe-cli: key resolution (lib/stripe-client.js,            *)
(* lib/profile-manager.js, lib/config-loader.js) and the card import       *)
(* (lib/commands/cards.js).                                                *)
(*                                                                         *)
(* JavaScript strings are sequences of tokens (a token is a piece of text  *)
(* that the code never looks inside, or a single character where the code  *)
(* does); the empty string is <<>>.  null and undefined are two reserved   *)
(* one-token sequences.                                                    *)
(***************************************************************************)
EXTENDS Integers, Sequences, FiniteSets, TLC

VARIABLES
    world,      \* .secrets file, config.yml, process.env and the CSV input as found
    manager,    \* the ProfileManager: its profiles and its default profile
    \* searchAccounts (lib/commands/account.js)
    allAccounts,        \* the accounts read so far
    startingAfter,      \* the cursor of the next request
    pages,              \* what stripe.accounts.list has answered, in order
    now,        \* the clock (new Date()), in months: 12 * year + (month - 1)
    call,       \* the function call under way and its arguments
    outcome,    \* what the call returned or threw (for importCards: its promise)
    \* importCards (lib/commands/cards.js)
    pc,                 \* where importCards stands
    stripe,             \* the client made by createStripeClient
    platformAccount,
    connectedAccount,
    cards,              \* the rows read from the CSV, normalized
    originalRows,       \* the rows as read
    idx,                \* the loop index i of the import loop, from 1
    validCards,
    errors,             \* the validation errors of the first pass
    results,
    successCount,
    failCount,
    processedCount,
    created,            \* customer and paymentMethod of the row being imported
    apiCalls,           \* every Stripe call made so far, in order
    inflight,           \* the Stripe calls awaiting their answer
    stdout,             \* the writes to process.stdout
    stderr,             \* the lines written to process.stderr
    \* the delete commands (lib/commands/customer.js)
    allCustomers,       \* the customers found by the search or the listing
    deleteAllRemaining,
    prompts,            \* the questions asked on the terminal and their answers
    deletedCount,
    failedCount,        \* `failed` of the delete loops
    \* the command line program
    exitCode            \* <<>> while the process runs, then <<code>>

callVars == <<world, now, call, outcome>>
importVars == <<pc, stripe, platformAccount, connectedAccount, cards, originalRows, idx,
                validCards, errors, results, successCount, failCount, processedCount,
                created, apiCalls, inflight, stdout, stderr>>
deleteVars == <<allCustomers, deleteAllRemaining, prompts, deletedCount, failedCount>>
searchVars == <<allAccounts, startingAfter, pages>>
vars == <<world, manager, allAccounts, startingAfter, pages, now, call, outcome, pc, stripe, platformAccount, connectedAccount, cards,
          originalRows, idx, validCards, errors, results, successCount, failCount,
          processedCount, created, apiCalls, inflight, stdout, stderr,
          allCustomers, deleteAllRemaining, prompts, deletedCount, failedCount, exitCode>>

-----------------------------------------------------------------------------
(* JavaScript values *)

NULL == <<"#null">>
UNDEFINED == <<"#undefined">>
EMPTY == <<>>

\* !v for a string-or-null value
Falsy(v) == v \in {NULL, UNDEFINED, EMPTY}
Truthy(v) == ~Falsy(v)

\* a || b
Or(a, b) == IF Truthy(a) THEN a ELSE b

\* s.startsWith(p) for a one-token prefix p
StartsWith(s, p) == Len(s) >= 1 /\ s[1] = p

\* an exception / a normal completion
Thrown(m) == [threw |-> TRUE, val |-> m]
Returned(v) == [threw |-> FALSE, val |-> v]

\* message.includes('not found')
NotFoundTokens == {"' not found", "Secrets file not found: ", "' not found in profiles"}
IncludesNotFound(m) == \E i \in 1..Len(m) : m[i] \in NotFoundTokens

-----------------------------------------------------------------------------
(* lib/profile-manager.js *)

\* the object a section header creates
NewProfile(name) ==
    [name |-> name, key |-> NULL, restricted_key |-> NULL, secret_key |-> NULL,
     public_key |-> NULL, test_restricted_key |-> NULL, test_secret_key |-> NULL,
     test_public_key |-> NULL, description |-> NULL,
     account |-> UNDEFINED, connected_account |-> UNDEFINED]

\* lines of the .secrets file, after trim and with comments dropped
SectionLine(name) == [kind |-> "section", name |-> name, key |-> "", value |-> EMPTY]
KVLine(k, v) == [kind |-> "kv", name |-> EMPTY, key |-> k, value |-> v]

ProfileFields == {"key", "restricted_key", "secret_key", "description", "account",
                  "connected_account", "public_key", "test_public_key",
                  "test_restricted_key", "test_secret_key"}

\* new ProfileManager()
NewManager == [profiles |-> <<>>, names |-> {}, defaultProfile |-> NULL,
               currentProfile |-> NULL, inGlobalSection |-> FALSE]

\* this.profiles is a plain object ({}): besides the sections it answers for the
\* members that every object inherits from Object.prototype, and those are
\* functions, so they are truthy and have none of the fields of a profile
InheritedNames == {<<"constructor">>, <<"toString">>}
InheritedMember(name) ==
    [f \in DOMAIN NewProfile(name) |->
        IF f # "name" THEN UNDEFINED
        ELSE IF name = <<"constructor">> THEN <<"Object">> ELSE name]

\* this.profiles[name], as a condition and as a value
HasProfile(pm, name) == name \in pm.names \/ name \in InheritedNames
ProfileOf(pm, name) ==
    IF name \in pm.names
    THEN pm.profiles[CHOOSE i \in 1..Len(pm.profiles) : pm.profiles[i].name = name]
    ELSE InheritedMember(name)

SetProfile(pm, p) ==
    IF p.name \in pm.names
    THEN [pm EXCEPT !.profiles = [i \in 1..Len(pm.profiles) |->
                        IF pm.profiles[i].name = p.name THEN p ELSE pm.profiles[i]]]
    ELSE [pm EXCEPT !.profiles = Append(pm.profiles, p), !.names = pm.names \cup {p.name}]

\* one iteration of the loop of parseProfileContent
ParseLine(pm, line) ==
    IF line.kind = "section"
    THEN IF line.name = <<"global">>
         THEN [pm EXCEPT !.inGlobalSection = TRUE, !.currentProfile = NULL]
         ELSE [SetProfile(pm, NewProfile(line.name))
                  EXCEPT !.inGlobalSection = FALSE, !.currentProfile = line.name]
    ELSE IF pm.inGlobalSection
         THEN IF line.key = "profile" THEN [pm EXCEPT !.defaultProfile = line.value] ELSE pm
         ELSE IF Truthy(pm.currentProfile) /\ HasProfile(pm, pm.currentProfile)
                 /\ line.key \in ProfileFields
              THEN SetProfile(pm, [ProfileOf(pm, pm.currentProfile) EXCEPT ![line.key] = line.value])
              ELSE pm

RECURSIVE ParseLines(_, _)
ParseLines(pm, lines) ==
    IF lines = <<>> THEN pm ELSE ParseLines(ParseLine(pm, Head(lines)), Tail(lines))

\* parseProfileContent: the loop, then the check that the default profile exists
parseProfileContent(pm, lines) ==
    LET after == ParseLines(pm, lines) IN
    IF Truthy(after.defaultProfile) /\ ~HasProfile(after, after.defaultProfile)
    THEN Thrown(<<"Default profile '">> \o after.defaultProfile \o <<"' not found in profiles">>)
    ELSE Returned(after)

\* config-loader.js getDefaultProfile: global.default_platform || null
getDefaultProfile(config) == Or(config.default_platform, NULL)

\* loadDefaultProfileFromConfig: config.yml replaces what '[global] profile=' gave
loadDefaultProfileFromConfig_KeepsSecrets(pm, config) ==
    [pm EXCEPT !.defaultProfile = Or(pm.defaultProfile, getDefaultProfile(config))]

loadDefaultProfileFromConfig(pm, config) ==
    [pm EXCEPT !.defaultProfile = getDefaultProfile(config)]

\* loadProfiles: the manager it leaves when it returns, or what it throws
loadProfiles(w) ==
    IF ~w.secrets.exists
    THEN Thrown(<<"Secrets file not found: ", ".secrets">>)
    ELSE LET parsed == parseProfileContent(NewManager, w.secrets.lines) IN
         IF parsed.threw THEN parsed
         ELSE Returned(loadDefaultProfileFromConfig(parsed.val, w.config))

\* ProfileManager.getDefaultProfile
ManagerDefaultProfile(pm) == pm.defaultProfile

\* getProfile
getProfile(pm, profileName) ==
    LET name == IF Falsy(profileName) THEN pm.defaultProfile ELSE profileName IN
    IF Falsy(name)
    THEN Thrown(<<"No profile specified and no default profile configured">>)
    ELSE IF ~HasProfile(pm, name)
         THEN Thrown(<<"Profile '">> \o name \o <<"' not found">>)
         ELSE Returned(ProfileOf(pm, name))

\* getProfileKey
getProfileKey(pm, profileName) ==
    LET profile == getProfile(pm, profileName) IN
    IF profile.threw THEN profile
    ELSE Returned(Or(profile.val.restricted_key, Or(profile.val.key, NULL)))

\* /-(uat|test)$/i
UatTestSuffixes == {"-uat", "-test", "-UAT", "-TEST"}
EndsWithUatOrTest(name) == Len(name) >= 1 /\ name[Len(name)] \in UatTestSuffixes

\* getProfileKeyByType, once getProfile has answered
KeyByType(profile, profileName, keyType, environment) ==
    IF profile.threw THEN profile
    ELSE IF keyType \notin {<<"secret">>, <<"restricted">>}
    THEN Thrown(<<"Invalid key type: ">> \o keyType)
    ELSE IF EndsWithUatOrTest(profileName)
    THEN IF keyType = <<"secret">> THEN Returned(Or(profile.val.secret_key, NULL))
         ELSE Returned(Or(profile.val.restricted_key, Or(profile.val.key, NULL)))
    ELSE IF keyType = <<"secret">>
    THEN IF environment = <<"test">>
         THEN Returned(Or(profile.val.test_secret_key, Or(profile.val.secret_key, NULL)))
         ELSE Returned(Or(profile.val.secret_key, NULL))
    ELSE IF environment = <<"test">>
         THEN Returned(Or(profile.val.test_restricted_key,
                          Or(profile.val.restricted_key, Or(profile.val.key, NULL))))
         ELSE Returned(Or(profile.val.restricted_key, Or(profile.val.key, NULL)))

\* getProfileKeyByType
getProfileKeyByType(pm, profileName, keyType, environment) ==
    KeyByType(getProfile(pm, profileName), profileName, keyType, environment)

-----------------------------------------------------------------------------
(* lib/config-loader.js *)

\* getRequiredKeyType: the configured key type of the command, else 'restricted'
getRequiredKeyType(config, commandPath) ==
    IF commandPath \in DOMAIN config.commands /\ Truthy(config.commands[commandPath])
    THEN config.commands[commandPath]
    ELSE <<"restricted">>

\* validateKeyForCommand without its two checks
validateKeyForCommand_AnyKey(config, key, commandPath) == Returned(key)

\* validateKeyForCommand
validateKeyForCommand(config, key, commandPath) ==
    LET requiredKeyType == getRequiredKeyType(config, commandPath)
        isSecretKey == StartsWith(key, "sk_")
        isRestrictedKey == StartsWith(key, "rk_")
    IN
    IF requiredKeyType = <<"secret">> /\ ~isSecretKey
    THEN Thrown(<<"Command '">> \o commandPath \o <<"' requires a secret key (sk_*)">>)
    ELSE IF requiredKeyType = <<"restricted">> /\ ~isRestrictedKey
         THEN Thrown(<<"Command '">> \o commandPath \o <<"' requires a restricted key (rk_*)">>)
         ELSE Returned(key)

\* getPlatformConfig: config.platform[platformName] || null
HasPlatformConfig(config, platformName) == platformName \in DOMAIN config.platform
getPlatformConfig(config, platformName) == config.platform[platformName]

\* getPlatformConfig(name).mode === 'test'
PlatformModeIsTest(config, platformName) ==
    HasPlatformConfig(config, platformName) /\ getPlatformConfig(config, platformName).mode = <<"test">>

\* name.includes('-') and name.split('-')[0], for names whose hyphens start a token
IncludesHyphen(name) == \E i \in 1..Len(name) : name[i] \in UatTestSuffixes
FirstPart(name) == IF name = <<>> \/ name[1] \in UatTestSuffixes THEN EMPTY ELSE <<name[1]>>

\* getPlatformAccount
RECURSIVE getPlatformAccount(_, _)
getPlatformAccount(config, platformName) ==
    IF HasPlatformConfig(config, platformName)
       /\ Truthy(getPlatformConfig(config, platformName).account)
    THEN getPlatformConfig(config, platformName).account
    ELSE IF Truthy(platformName) /\ IncludesHyphen(platformName)
         THEN getPlatformAccount(config, FirstPart(platformName))
         ELSE NULL

\* getPlatformTestConnectedAccount
getPlatformTestConnectedAccount(config, platformName) ==
    IF ~HasPlatformConfig(config, platformName) THEN NULL
    ELSE LET entry == getPlatformConfig(config, platformName) IN
         IF entry.mode = <<"test">> /\ Truthy(entry.connected_account) THEN entry.connected_account
         ELSE IF Truthy(entry.test_connected_account) THEN entry.test_connected_account
         ELSE IF Truthy(entry.testing_connected_account) THEN entry.testing_connected_account
         ELSE NULL

\* getPlatformProdConnectedAccount
getPlatformProdConnectedAccount(config, platformName) ==
    IF ~HasPlatformConfig(config, platformName) THEN NULL
    ELSE LET entry == getPlatformConfig(config, platformName) IN
         IF entry.mode # <<"test">> /\ Truthy(entry.connected_account) THEN entry.connected_account
         ELSE Or(entry.prod_connected_account, NULL)

\* getPlatformConnectedAccountByEnvironment
getPlatformConnectedAccountByEnvironment(config, platformName, environment) ==
    IF environment = <<"prod">>
    THEN getPlatformProdConnectedAccount(config, platformName)
    ELSE getPlatformTestConnectedAccount(config, platformName)

\* ProfileManager.extractPlatformFromProfileName
extractPlatformFromProfileName(config, profileName) ==
    IF Falsy(profileName) THEN NULL
    ELSE IF HasPlatformConfig(config, profileName) THEN profileName
    ELSE IF HasPlatformConfig(config, FirstPart(profileName)) THEN FirstPart(profileName)
    ELSE NULL

\* ProfileManager.getProfileAccount
getProfileAccount(pm, config, profileName) ==
    LET name == IF Falsy(profileName) THEN pm.defaultProfile ELSE profileName
        platformName == extractPlatformFromProfileName(config, name)
    IN
    IF Falsy(name) THEN NULL
    ELSE IF ~HasProfile(pm, name) THEN NULL
    ELSE IF Truthy(ProfileOf(pm, name).account) THEN ProfileOf(pm, name).account
    ELSE IF Truthy(platformName) THEN getPlatformAccount(config, platformName)
    ELSE NULL

\* ProfileManager.getProfileConnectedAccount
getProfileConnectedAccount(pm, config, profileName, environment) ==
    LET name == IF Falsy(profileName) THEN pm.defaultProfile ELSE profileName
        platformName == extractPlatformFromProfileName(config, name)
    IN
    IF Falsy(name) THEN NULL
    ELSE IF ~HasProfile(pm, name) THEN NULL
    ELSE IF Truthy(ProfileOf(pm, name).connected_account) THEN ProfileOf(pm, name).connected_account
    ELSE IF Truthy(platformName)
         THEN getPlatformConnectedAccountByEnvironment(config, platformName, environment)
         ELSE NULL

-----------------------------------------------------------------------------
(* lib/stripe-client.js *)

\* createStripeClient taken to accept secret keys only
createStripeClient_SecretOnly(secretKey) ==
    IF Falsy(secretKey)
    THEN Thrown(<<"Stripe secret key is required">>)
    ELSE IF ~StartsWith(secretKey, "sk_")
         THEN Thrown(<<"Invalid Stripe API key format">>)
         ELSE Returned([key |-> secretKey, apiVersion |-> <<"2023-10-16">>])

\* createStripeClient
createStripeClient(secretKey) ==
    IF Falsy(secretKey)
    THEN Thrown(<<"Stripe secret key is required">>)
    ELSE IF ~StartsWith(secretKey, "sk_") /\ ~StartsWith(secretKey, "rk_")
         THEN Thrown(<<"Invalid Stripe API key format">>)
         ELSE Returned([key |-> secretKey, apiVersion |-> <<"2023-10-16">>])

\* detectEnvironment
detectEnvironment(options, config) ==
    IF Truthy(options.environment) THEN options.environment
    ELSE IF options.test THEN <<"test">>
    ELSE IF Truthy(options.platform) /\ EndsWithUatOrTest(options.platform) THEN <<"test">>
    ELSE IF Truthy(options.platform) /\ PlatformModeIsTest(config, options.platform) THEN <<"test">>
    ELSE <<"prod">>

\* platform.replace(/-uat$|-test$/i, '')
BasePlatform(platform) ==
    IF EndsWithUatOrTest(platform) THEN SubSeq(platform, 1, Len(platform) - 1) ELSE platform

\* lines 91-98: the key of the required type, looked up in the base profile when
\* the platform's own profile is not found
TypedKeyOrBase(pm, platform, requiredKeyType, typed) ==
    IF typed.threw /\ EndsWithUatOrTest(platform) /\ IncludesNotFound(typed.val)
    THEN getProfileKeyByType(pm, BasePlatform(platform), requiredKeyType, <<"test">>)
    ELSE typed

\* lines 108-120: the plain key, looked up in the base profile when the platform's
\* own profile is not found
BaseKey(pm, platform, baseTyped) ==
    IF baseTyped.threw THEN baseTyped
    ELSE IF Truthy(baseTyped.val) THEN baseTyped
    ELSE getProfileKey(pm, BasePlatform(platform))

PlainKeyOrBase(pm, platform, plain) ==
    IF plain.threw /\ EndsWithUatOrTest(platform) /\ IncludesNotFound(plain.val)
    THEN BaseKey(pm, platform,
                 getProfileKeyByType(pm, BasePlatform(platform), <<"restricted">>, <<"test">>))
    ELSE plain

\* if (!key) throw new Error(message)
RequireKey(key, message) ==
    IF key.threw THEN key
    ELSE IF Falsy(key.val) THEN Thrown(message)
    ELSE key

\* the try block of the platform branch, once the profiles are loaded
PlatformKey(pm, platform, commandPath, requiredKeyType, environment) ==
    IF Truthy(commandPath)
    THEN RequireKey(
             TypedKeyOrBase(pm, platform, requiredKeyType,
                            getProfileKeyByType(pm, platform, requiredKeyType, environment)),
             <<"Profile '">> \o platform \o <<"' has no ">> \o requiredKeyType
                 \o <<" key configured">>)
    ELSE RequireKey(
             PlainKeyOrBase(pm, platform, getProfileKey(pm, platform)),
             <<"Profile '">> \o platform \o <<"' has no API key in .secrets">>)

\* a step that needs the loaded profiles
WhenLoaded(loaded, body) == IF loaded.threw THEN loaded ELSE body

\* catch (error) { throw new Error(`Profile error: ${error.message}`) }
ProfileError(body) ==
    IF body.threw THEN Thrown(<<"Profile error: ">> \o body.val) ELSE body

PlatformKeyFrom(loaded, w, options, commandPath) ==
    WhenLoaded(loaded,
        PlatformKey(loaded.val, options.platform, commandPath,
                    getRequiredKeyType(w.config, commandPath),
                    detectEnvironment(options, w.config)))

\* getStripeKey, lines 77-129: options.platform is set
getStripeKeyFromPlatform(w, options, commandPath) ==
    ProfileError(PlatformKeyFrom(loadProfiles(w), w, options, commandPath))

\* if (!key) key = process.env.STRIPE_SECRET_KEY
OrEnvironment(w, key) ==
    IF key.threw THEN key
    ELSE IF Falsy(key.val) THEN Returned(w.env.STRIPE_SECRET_KEY)
    ELSE key

\* the try block of the default branch, once the profiles are loaded
DefaultKey(pm, w, options, commandPath) ==
    IF Truthy(commandPath)
    THEN OrEnvironment(w,
             getProfileKeyByType(pm, NULL, getRequiredKeyType(w.config, commandPath),
                                 detectEnvironment(options, w.config)))
    ELSE getProfileKey(pm, UNDEFINED)

DefaultKeyFrom(loaded, w, options, commandPath) ==
    WhenLoaded(loaded, DefaultKey(loaded.val, w, options, commandPath))

\* catch (error) { key = process.env.STRIPE_SECRET_KEY }
EnvironmentOnError(w, body) ==
    IF body.threw THEN Returned(w.env.STRIPE_SECRET_KEY) ELSE body

\* getStripeKey, lines 131-158: neither options.key nor options.platform
getStripeKeyFromDefault(w, options, commandPath) ==
    EnvironmentOnError(w, DefaultKeyFrom(loadProfiles(w), w, options, commandPath))

\* getStripeKey with the --platform branch tried before --key
getStripeKey_PlatformFirst(w, options, commandPath) ==
    IF Truthy(options.platform)
    THEN getStripeKeyFromPlatform(w, options, commandPath)
    ELSE IF Truthy(options.key)
    THEN IF Truthy(commandPath)
         THEN validateKeyForCommand(w.config, options.key, commandPath)
         ELSE Returned(options.key)
    ELSE getStripeKeyFromDefault(w, options, commandPath)

\* getStripeKey
getStripeKey(w, options, commandPath) ==
    IF Truthy(options.key)
    THEN IF Truthy(commandPath)
         THEN validateKeyForCommand(w.config, options.key, commandPath)
         ELSE Returned(options.key)
    ELSE IF Truthy(options.platform)
    THEN getStripeKeyFromPlatform(w, options, commandPath)
    ELSE getStripeKeyFromDefault(w, options, commandPath)

-----------------------------------------------------------------------------
(* The files and the environment that getStripeKey may find *)

VET == <<"vet">>
VET_UAT == <<"vet", "-uat">>
DM == <<"dm">>
DM_TEST == <<"dm", "-TEST">>
BARE_UAT == <<"-uat">>

KeyFieldOrder == <<"key", "restricted_key", "secret_key", "test_restricted_key", "test_secret_key">>
KeyFieldSet == {KeyFieldOrder[i] : i \in DOMAIN KeyFieldOrder}

\* the value a .secrets file gives to a key field of a section: its prefix, then
\* the field and the section it was written in
KeyPrefix(f) == IF f \in {"restricted_key", "test_restricted_key"} THEN "rk_" ELSE "sk_"
KeyOf(name, f) == <<KeyPrefix(f), f>> \o name
KeysOfSection(name) == {KeyOf(name, f) : f \in KeyFieldSet}

\* the lines of one section: the fields of `set` have their key, those of `empty`
\* are written with nothing after the '='
RECURSIVE FieldLines(_, _, _, _)
FieldLines(name, set, empty, i) ==
    IF i > Len(KeyFieldOrder) THEN <<>>
    ELSE LET f == KeyFieldOrder[i] IN
         (IF f \in set THEN <<KVLine(f, KeyOf(name, f))>>
          ELSE IF f \in empty THEN <<KVLine(f, EMPTY)>>
          ELSE <<>>) \o FieldLines(name, set, empty, i + 1)

SectionLines(name, shape) ==
    IF shape.present
    THEN <<SectionLine(name)>> \o FieldLines(name, shape.set, shape.empty, 1)
    ELSE <<>>

Shape(set, empty) == [present |-> TRUE, set |-> set, empty |-> empty]
NoSection == [present |-> FALSE, set |-> {}, empty |-> {}]

VetShapes ==
    {NoSection, Shape({}, {}), Shape({"restricted_key"}, {}), Shape({"key"}, {}),
     Shape({"secret_key"}, {}), Shape({"test_restricted_key"}, {}),
     Shape({"test_secret_key"}, {}), Shape(KeyFieldSet, {}),
     Shape({"key"}, {"restricted_key"})}

UatShapes == {NoSection, Shape({}, {}), Shape({"restricted_key", "secret_key"}, {})}

\* the legacy '[global] profile=' line
GlobalLines(profile) ==
    IF profile = UNDEFINED THEN <<>>
    ELSE <<SectionLine(<<"global">>), KVLine("profile", profile)>>

SecretsFiles ==
    {[exists |-> FALSE, lines |-> <<>>]} \cup
    {[exists |-> TRUE,
      lines |-> GlobalLines(g) \o SectionLines(VET, sv) \o SectionLines(VET_UAT, su)] :
        g \in {UNDEFINED, DM}, sv \in VetShapes, su \in UatShapes}

\* command paths, and the one that config.yml marks as needing a secret key
CmdImport == <<"account.import.card">>
CmdNetworkCost == <<"account.setting.network-cost.enable">>

\* an entry of the platform map of config.yml
PlatformEntry(account, connected, mode) ==
    [account |-> account, connected_account |-> connected, mode |-> mode,
     test_connected_account |-> UNDEFINED, prod_connected_account |-> UNDEFINED,
     testing_connected_account |-> UNDEFINED]

NoPlatforms == [n \in {} |-> PlatformEntry(UNDEFINED, UNDEFINED, UNDEFINED)]

CommandKeys == [c \in {CmdNetworkCost} |-> <<"secret">>]

Configs ==
    {[default_platform |-> d, commands |-> CommandKeys, platform |-> m] :
        d \in {UNDEFINED, VET, DM},
        m \in {NoPlatforms, [n \in {VET} |-> PlatformEntry(UNDEFINED, UNDEFINED, <<"test">>)]}}

EnvKey == <<"sk_", "STRIPE_SECRET_KEY">>
Environments == {[STRIPE_SECRET_KEY |-> k] : k \in {UNDEFINED, EnvKey}}

Worlds == {[secrets |-> s, config |-> c, env |-> e] :
              s \in SecretsFiles, c \in Configs, e \in Environments}

OptKeys == {UNDEFINED, <<"rk_", "--key">>, <<"sk_", "--key">>, <<"pk_", "--key">>}
OptPlatforms == {UNDEFINED, VET, VET_UAT, DM_TEST, BARE_UAT}

KeyOptions ==
    {[key |-> k, platform |-> p, environment |-> UNDEFINED, test |-> t] :
        k \in OptKeys, p \in OptPlatforms, t \in BOOLEAN}

CommandPaths == {NULL, CmdImport, CmdNetworkCost}

\* the clock at the start of a run: 12 * year + (month - 1), November 2026
Today == 12 * 2026 + 10

\* the process runs and no delete command has been called
DeleteIdle ==
    /\ exitCode = <<>>
    /\ manager = NewManager
    /\ allAccounts = <<>>
    /\ startingAfter = NULL
    /\ pages = <<>>
    /\ allCustomers = <<>>
    /\ deleteAllRemaining = FALSE
    /\ prompts = <<>>
    /\ deletedCount = 0
    /\ failedCount = 0

\* importCards has not been called
ImportIdle ==
    /\ DeleteIdle
    /\ pc = "idle"
    /\ stripe = NULL
    /\ platformAccount = UNDEFINED
    /\ connectedAccount = UNDEFINED
    /\ cards = <<>>
    /\ originalRows = <<>>
    /\ idx = 0
    /\ validCards = 0
    /\ errors = <<>>
    /\ results = <<>>
    /\ successCount = 0
    /\ failCount = 0
    /\ processedCount = 0
    /\ created = <<>>
    /\ apiCalls = <<>>
    /\ inflight = {}
    /\ stdout = <<>>
    /\ stderr = <<>>

NoCall == [fn |-> "none", options |-> <<>>, commandPath |-> NULL]
Pending == [threw |-> FALSE, val |-> <<"#pending">>]

-----------------------------------------------------------------------------
(* Key resolution: one call of getStripeKey in some world *)

InitKey ==
    /\ world \in Worlds
    /\ now = Today
    /\ call = NoCall
    /\ outcome = Pending
    /\ ImportIdle

GetStripeKey ==
    /\ call = NoCall
    /\ \E options \in KeyOptions, commandPath \in CommandPaths :
        /\ call' = [fn |-> "getStripeKey", options |-> options, commandPath |-> commandPath]
        /\ outcome' = getStripeKey(world, options, commandPath)
    /\ UNCHANGED <<exitCode, deleteVars, manager, searchVars, world, now>>
    /\ UNCHANGED importVars

NextKey == GetStripeKey

SpecKey == InitKey /\ [][NextKey]_vars

-----------------------------------------------------------------------------
(* Claims about getStripeKey *)

KeyCallDone == call.fn = "getStripeKey"

\* no key at all: null and undefined both mean that nothing was resolved
SameKey(a, b) == a = b \/ ({a, b} \subseteq {NULL, UNDEFINED})

\* the sections that the .secrets file of the world contains
SectionsOf(w) == {w.secrets.lines[i].name : i \in {j \in 1..Len(w.secrets.lines) :
                        w.secrets.lines[j].kind = "section"}} \ {<<"global">>}

\* every key that a profile or the environment of the world could supply
ForeignKeys(w) == UNION {KeysOfSection(n) : n \in {VET, VET_UAT, DM}} \cup {EnvKey}

\* C1: whenever options.key is set, the call returns exactly that key or throws;
\* a key of a profile or of STRIPE_SECRET_KEY is never returned, with or without
\* a command path.
C1_ExplicitKeyWins ==
    (KeyCallDone /\ Truthy(call.options.key)) =>
        (outcome.threw \/ (outcome.val = call.options.key /\ outcome.val \notin ForeignKeys(world)))

\* C1 witness: an explicit key is returned although the default profile and the
\* environment both hold a key and a command path is passed.
C1_Witness ==
    /\ KeyCallDone
    /\ Truthy(call.options.key)
    /\ Truthy(call.commandPath)
    /\ world.env.STRIPE_SECRET_KEY = EnvKey
    /\ world.config.default_platform = VET
    /\ VET \in SectionsOf(world)
    /\ Truthy(call.options.platform)
    /\ ~outcome.threw
    /\ outcome.val = call.options.key

\* the section a --platform name may be resolved from: its own, or the base
\* profile when the name ends in -uat/-test and has no section of its own
PlatformSources(w, platform) ==
    IF platform \in SectionsOf(w) THEN {platform}
    ELSE IF EndsWithUatOrTest(platform) THEN {BasePlatform(platform)}
    ELSE {}

IsProfileError(o) == o.threw /\ StartsWith(o.val, "Profile error: ")

\* C2: with options.key unset and options.platform set, the call returns a key
\* of that platform's section (or of its base section when the name ends in
\* -uat/-test and has no section) or throws 'Profile error: ...'; it never
\* returns a key of another profile (the default platform) or STRIPE_SECRET_KEY.
C2_PlatformOnly ==
    (KeyCallDone /\ Falsy(call.options.key) /\ Truthy(call.options.platform)) =>
        \/ IsProfileError(outcome)
        \/ /\ ~outcome.threw
           /\ \E n \in PlatformSources(world, call.options.platform) :
                 outcome.val \in KeysOfSection(n)

\* C2 restricted to platform names that do not consist of the suffix alone
C2_ExceptBareSuffix ==
    (KeyCallDone /\ Falsy(call.options.key) /\ Truthy(call.options.platform)
        /\ Truthy(BasePlatform(call.options.platform))) =>
        \/ IsProfileError(outcome)
        \/ /\ ~outcome.threw
           /\ \E n \in PlatformSources(world, call.options.platform) :
                 outcome.val \in KeysOfSection(n)

\* the default profile of the world, when .secrets loads and has that section
DefaultSection(w) ==
    IF ~loadProfiles(w).threw /\ Truthy(w.config.default_platform)
       /\ w.config.default_platform \in SectionsOf(w)
    THEN {w.config.default_platform}
    ELSE {}

\* C3: with neither options.key nor options.platform the call never throws and
\* returns a key of the default profile or else the value of STRIPE_SECRET_KEY;
\* when the default profile supplies no key the result is STRIPE_SECRET_KEY,
\* with and without a command path.
C3_DefaultThenEnv ==
    (KeyCallDone /\ Falsy(call.options.key) /\ Falsy(call.options.platform)) =>
        /\ ~outcome.threw
        /\ \/ \E n \in DefaultSection(world) : outcome.val \in KeysOfSection(n)
           \/ SameKey(outcome.val, world.env.STRIPE_SECRET_KEY)

\* C3 as the code has it when a command path is passed
C3_WithCommandPath ==
    (KeyCallDone /\ Falsy(call.options.key) /\ Falsy(call.options.platform)
        /\ Truthy(call.commandPath)) =>
        /\ ~outcome.threw
        /\ \/ \E n \in DefaultSection(world) : outcome.val \in KeysOfSection(n)
           \/ SameKey(outcome.val, world.env.STRIPE_SECRET_KEY)

-----------------------------------------------------------------------------
(* lib/commands/cards.js: the validators and the mask.  Card numbers and     *)
(* expiration dates are sequences of single characters.                      *)

DigitChars == {"0", "1", "2", "3", "4", "5", "6", "7", "8", "9"}
DigitVal(c) ==
    CASE c = "0" -> 0 [] c = "1" -> 1 [] c = "2" -> 2 [] c = "3" -> 3 [] c = "4" -> 4
      [] c = "5" -> 5 [] c = "6" -> 6 [] c = "7" -> 7 [] c = "8" -> 8 [] c = "9" -> 9

AllDigits(s) == \A i \in 1..Len(s) : s[i] \in DigitChars

\* /^\d{13,19}$/
MinCardDigits == 13
MaxCardDigits == 19
MatchesCardPattern(s) ==
    /\ s \notin {NULL, UNDEFINED}
    /\ Len(s) >= MinCardDigits
    /\ Len(s) <= MaxCardDigits
    /\ AllDigits(s)

\* the loop of validateCardNumber, from index i down to the first character
RECURSIVE LuhnLoop(_, _, _, _)
LuhnLoop(cardNumber, i, sum, isEven) ==
    IF i < 1 THEN sum
    ELSE LET parsed == DigitVal(cardNumber[i])
             doubled == parsed * 2
             digit == IF isEven THEN (IF doubled > 9 THEN doubled - 9 ELSE doubled) ELSE parsed
         IN LuhnLoop(cardNumber, i - 1, sum + digit, ~isEven)

\* validateCardNumber doubling from the last digit instead of the one before it
validateCardNumber_ParityOff(cardNumber) ==
    IF ~MatchesCardPattern(cardNumber) THEN FALSE
    ELSE LuhnLoop(cardNumber, Len(cardNumber), 0, TRUE) % 10 = 0

\* validateCardNumber
validateCardNumber(cardNumber) ==
    IF ~MatchesCardPattern(cardNumber) THEN FALSE
    ELSE LuhnLoop(cardNumber, Len(cardNumber), 0, FALSE) % 10 = 0

\* maskCardNumber with a mask of twelve stars whatever the length
maskCardNumber_TwelveStars(cardNumber) ==
    IF Falsy(cardNumber) \/ Len(cardNumber) < 4 THEN cardNumber
    ELSE [i \in 1..12 |-> "*"] \o SubSeq(cardNumber, Len(cardNumber) - 3, Len(cardNumber))

\* maskCardNumber
MaskKeep == 4
maskCardNumber(cardNumber) ==
    IF Falsy(cardNumber) \/ Len(cardNumber) < MaskKeep THEN cardNumber
    ELSE LET last4 == SubSeq(cardNumber, Len(cardNumber) - MaskKeep + 1, Len(cardNumber))
             masked == [i \in 1..(Len(cardNumber) - MaskKeep) |-> "*"]
         IN masked \o last4

\* parseInt(s) without a radix, on decimal input: leading blanks, an optional
\* sign, then the longest run of digits; NaN when there is no digit
NaN == [nan |-> TRUE, n |-> 0]
Num(n) == [nan |-> FALSE, n |-> n]

RECURSIVE SkipBlanks(_)
SkipBlanks(s) == IF s # <<>> /\ Head(s) = " " THEN SkipBlanks(Tail(s)) ELSE s

RECURSIVE DigitRun(_, _, _)
DigitRun(s, acc, seen) ==
    IF s # <<>> /\ Head(s) \in DigitChars
    THEN DigitRun(Tail(s), 10 * acc + DigitVal(Head(s)), TRUE)
    ELSE IF seen THEN Num(acc) ELSE NaN

\* the sign, applied to the digits that follow it
ApplySign(negative, body) ==
    IF negative /\ ~body.nan THEN Num(0 - body.n) ELSE body

ParseSigned(t) ==
    ApplySign(t # <<>> /\ Head(t) = "-",
              DigitRun(IF t # <<>> /\ Head(t) \in {"-", "+"} THEN Tail(t) ELSE t, 0, FALSE))

parseInt(s) == ParseSigned(SkipBlanks(s))

\* s.includes('/') and s.split('/')
Includes(s, c) == \E i \in 1..Len(s) : s[i] = c

RECURSIVE Split(_, _)
Split(s, c) ==
    IF ~Includes(s, c) THEN <<s>>
    ELSE LET k == CHOOSE i \in 1..Len(s) : s[i] = c /\ \A j \in 1..(i - 1) : s[j] # c
         IN <<SubSeq(s, 1, k - 1)>> \o Split(SubSeq(s, k + 1, Len(s)), c)

\* new Date(year, monthIndex), as a month count; years 0..99 mean 1900..1999
DateMonths(year, monthIndex) ==
    12 * (IF year >= 0 /\ year <= 99 THEN 1900 + year ELSE year) + monthIndex

\* lines 129-140 without the range check of the month
ExpiresAfter_AnyMonth(month, year, t) ==
    IF month.nan \/ year.nan THEN FALSE
    ELSE DateMonths(((t \div 12) \div 100) * 100 + year.n, month.n - 1) > t

\* lines 129-140: the month in 1..12, and the first day of the expiry month
\* after the clock; a NaN month or year makes an Invalid Date, which is not
ExpiresAfter(month, year, t) ==
    IF ~month.nan /\ (month.n < 1 \/ month.n > 12) THEN FALSE
    ELSE IF month.nan \/ year.nan THEN FALSE
    ELSE DateMonths(((t \div 12) \div 100) * 100 + year.n, month.n - 1) > t

\* lines 118-121: the parts around the '/'
MonthOfParts(parts) == parseInt(parts[1])
YearOfParts(parts) == parseInt(parts[2])

\* validateExpirationDate without the range check of the month
validateExpirationDate_AnyMonth(expDate, t) ==
    IF Falsy(expDate) THEN FALSE
    ELSE IF Includes(expDate, "/")
    THEN IF Len(Split(expDate, "/")) # 2 THEN FALSE
         ELSE ExpiresAfter_AnyMonth(MonthOfParts(Split(expDate, "/")),
                                    YearOfParts(Split(expDate, "/")), t)
    ELSE IF Len(expDate) # 4 THEN FALSE
    ELSE ExpiresAfter_AnyMonth(parseInt(SubSeq(expDate, 1, 2)), parseInt(SubSeq(expDate, 3, 4)), t)

\* validateExpirationDate, read at clock value t
validateExpirationDate(expDate, t) ==
    IF Falsy(expDate) THEN FALSE
    ELSE IF Includes(expDate, "/")
    THEN IF Len(Split(expDate, "/")) # 2 THEN FALSE
         ELSE ExpiresAfter(MonthOfParts(Split(expDate, "/")), YearOfParts(Split(expDate, "/")), t)
    ELSE IF Len(expDate) # 4 THEN FALSE
    ELSE ExpiresAfter(parseInt(SubSeq(expDate, 1, 2)), parseInt(SubSeq(expDate, 3, 4)), t)

-----------------------------------------------------------------------------
(* Card numbers: one call of maskCardNumber or validateCardNumber *)

\* the longest card number tried
MaxCardLen == 20

CardLengths == {0, 3, 4} \cup ((MinCardDigits - 1)..MaxCardLen)

\* a card number of length len: the filler character everywhere, but `special`
\* at position k and `check` as the last character
MkCard(len, filler, k, special, check) ==
    [i \in 1..len |-> IF i = len THEN check ELSE IF i = k THEN special ELSE filler]

\* k counts from the check digit: the special character sits k places before it
SpecialAt(len, k) == len - k

CardNumbers ==
    {MkCard(len, filler, SpecialAt(len, k), special, check) :
        len \in CardLengths, filler \in {"0", "7"}, k \in {1, 2, 3},
        special \in DigitChars \cup {"x"}, check \in DigitChars}

InitCard ==
    /\ world = [secrets |-> [exists |-> FALSE, lines |-> <<>>]]
    /\ now = Today
    /\ call \in {[fn |-> "none", arg |-> c] : c \in CardNumbers}
    /\ outcome = Pending
    /\ ImportIdle

MaskCardNumber ==
    /\ call.fn = "none"
    /\ call' = [call EXCEPT !.fn = "maskCardNumber"]
    /\ outcome' = Returned(maskCardNumber(call.arg))
    /\ UNCHANGED <<exitCode, deleteVars, manager, searchVars, world, now>>
    /\ UNCHANGED importVars

ValidateCardNumber ==
    /\ call.fn = "none"
    /\ call' = [call EXCEPT !.fn = "validateCardNumber"]
    /\ outcome' = Returned(validateCardNumber(call.arg))
    /\ UNCHANGED <<exitCode, deleteVars, manager, searchVars, world, now>>
    /\ UNCHANGED importVars

NextCard == MaskCardNumber \/ ValidateCardNumber

SpecCard == InitCard /\ [][NextCard]_vars

\* C7: for a card number of length L in 13..19 the mask has length L, its first
\* L-4 characters are '*' and its last 4 characters are those of the input.
C7_MaskShowsLast4 ==
    (call.fn = "maskCardNumber" /\ Len(call.arg) \in MinCardDigits..MaxCardDigits) =>
        /\ Len(outcome.val) = Len(call.arg)
        /\ \A i \in 1..Len(call.arg) :
              IF i <= Len(call.arg) - 4
              THEN outcome.val[i] = "*"
              ELSE outcome.val[i] = call.arg[i]

\* C7 witness: a 19-character number with non-'*' characters was masked
C7_Witness ==
    /\ call.fn = "maskCardNumber"
    /\ Len(call.arg) = MaxCardDigits
    /\ call.arg[1] = "7" /\ call.arg[16] = "5"
    /\ outcome.val[1] = "*" /\ outcome.val[16] = "5"

\* the Luhn sum by position: the character j places left of the last one counts
\* double (minus 9 when above 9) exactly when j is odd
LuhnTerm(s, i) ==
    LET d == DigitVal(s[i]) IN
    IF (Len(s) - i) % 2 = 1 THEN (IF 2 * d > 9 THEN 2 * d - 9 ELSE 2 * d) ELSE d

RECURSIVE LuhnSumFrom(_, _)
LuhnSumFrom(s, i) == IF i > Len(s) THEN 0 ELSE LuhnTerm(s, i) + LuhnSumFrom(s, i + 1)

\* C8: validateCardNumber is true exactly for strings of 13 to 19 decimal digits
\* whose Luhn sum is divisible by 10.
C8_LuhnExactly ==
    (call.fn = "validateCardNumber") =>
        (outcome.val = TRUE <=>
            /\ Len(call.arg) >= 13
            /\ Len(call.arg) <= 19
            /\ \A i \in 1..Len(call.arg) : call.arg[i] \in DigitChars
            /\ LuhnSumFrom(call.arg, 1) % 10 = 0)

\* C8 witness: a 19-digit number with a digit above 4 in a doubled place is accepted
C8_Witness ==
    /\ call.fn = "validateCardNumber"
    /\ Len(call.arg) = MaxCardDigits
    /\ call.arg[MaxCardDigits - 1] \in {"5", "6", "7", "8", "9"}
    /\ outcome.val = TRUE

-----------------------------------------------------------------------------
(* Expiration dates: one call of validateExpirationDate at some clock value *)

\* how many months after Today the clock may read
MaxClockAhead == 2
ClockValues == Today..(Today + MaxClockAhead)

MonthStrings == {<<a, b>> : a \in {"0", "1"}, b \in {"0", "1", "2", "3", "9"}}
YearStrings == {<<"0", "0">>, <<"2", "0">>, <<"2", "6">>, <<"2", "7">>, <<"3", "0">>, <<"9", "9">>}

WellFormedExps ==
    {m \o <<"/">> \o y : m \in MonthStrings, y \in YearStrings}
    \cup {m \o y : m \in MonthStrings, y \in YearStrings}

OtherExps ==
    {EMPTY,
     <<"1", "2", "/", "2", "0", "3", "0">>,
     <<"1", "2", "/", "2", "0", "2", "0">>,
     <<"1", "/", "3", "0">>,
     <<"1", "2", "/", "3">>,
     <<"1", "2", "/", "3", "0", "/", "1">>,
     <<"1", "2", "3", "0", "0">>,
     <<"1", "2", "3">>,
     <<"a", "b", "/", "c", "d">>,
     <<"1", "2", "/", "c", "d">>,
     <<"a", "b", "3", "0">>,
     <<" ", "1", "/", "3", "0">>,
     <<"-", "1", "/", "3", "0">>,
     <<"1", "2", "/", "-", "1">>,
     <<"1", "x", "/", "3", "x">>}

ExpInputs == WellFormedExps \cup OtherExps

InitExp ==
    /\ world = [secrets |-> [exists |-> FALSE, lines |-> <<>>]]
    /\ now \in ClockValues
    /\ call \in {[fn |-> "none", arg |-> e] : e \in ExpInputs}
    /\ outcome = Pending
    /\ ImportIdle

ValidateExpirationDate ==
    /\ call.fn = "none"
    /\ call' = [call EXCEPT !.fn = "validateExpirationDate"]
    /\ outcome' = Returned(validateExpirationDate(call.arg, now))
    /\ UNCHANGED <<exitCode, deleteVars, manager, searchVars, world, now>>
    /\ UNCHANGED importVars

NextExp == ValidateExpirationDate

SpecExp == InitExp /\ [][NextExp]_vars

\* MM/YY or MMYY: two digits, an optional slash, two digits
IsMMYY(s) ==
    \/ Len(s) = 4 /\ AllDigits(s)
    \/ Len(s) = 5 /\ s[3] = "/" /\ AllDigits(<<s[1], s[2], s[4], s[5]>>)

\* the month and the two-digit year that such a string writes
WrittenMonth(s) == 10 * DigitVal(s[1]) + DigitVal(s[2])
WrittenYear(s) == 10 * DigitVal(s[Len(s) - 1]) + DigitVal(s[Len(s)])

\* the expiry month in the century of the clock, as a month count
ExpiryMonths(s, t) == 12 * (100 * ((t \div 12) \div 100) + WrittenYear(s)) + (WrittenMonth(s) - 1)

\* C9: for a string in MM/YY or MMYY form the result is false when the month is
\* outside 1..12, false when the expiry month lies before the current date, and
\* true only for a month in 1..12 whose expiry lies after the current month.
C9_ExpirationDate ==
    (call.fn = "validateExpirationDate" /\ IsMMYY(call.arg)) =>
        /\ (WrittenMonth(call.arg) \notin 1..12 => outcome.val = FALSE)
        /\ (ExpiryMonths(call.arg, now) < now => outcome.val = FALSE)
        /\ (outcome.val = TRUE =>
               WrittenMonth(call.arg) \in 1..12 /\ ExpiryMonths(call.arg, now) > now)

\* C9 witness: 01/27 is accepted in December 2026
C9_Witness ==
    /\ call.fn = "validateExpirationDate"
    /\ call.arg = <<"0", "1", "/", "2", "7">>
    /\ now = Today + 1
    /\ outcome.val = TRUE

\* C9 witness of a rejection: 1126 is rejected in December 2026
C9_RejectsPast ==
    /\ call.fn = "validateExpirationDate"
    /\ call.arg = <<"1", "1", "2", "6">>
    /\ now = Today + 1
    /\ outcome.val = FALSE

\* C23 as stated: only strings in MM/YY or MMYY form are accepted, every other
\* string is rejected.  The code splits at the slash and reads each part with
\* parseInt, so 12/2030, 12/2020 (read as the year 4020) and 1/30 are accepted.
C23_OnlyMMYYAccepted ==
    (call.fn = "validateExpirationDate" /\ ~IsMMYY(call.arg)) => outcome.val = FALSE

\* the four-digit year of the past that the claim names is accepted
C23_FourDigitYearAccepted ==
    /\ call.fn = "validateExpirationDate"
    /\ call.arg = <<"1", "2", "/", "2", "0", "2", "0">>
    /\ outcome.val = TRUE

-----------------------------------------------------------------------------
(* lib/commands/cards.js: validateCardRow and the rows of the result *)

\* row[k], undefined for a column the CSV does not have
Get(row, k) == IF k \in DOMAIN row THEN row[k] ELSE UNDEFINED

\* the length limits of the optional columns
MaxNameLen == 50
MinZipLen == 3
MaxZipLen == 10
MaxTokenLen == 100

OutOfRange(v, lo, hi) == Truthy(v) /\ (Len(v) < lo \/ Len(v) > hi)

\* return { isValid: errors.length === 0, errors, rowNumber }
ValidationOf(all, rowNumber) == [isValid |-> Len(all) = 0, errors |-> all, rowNumber |-> rowNumber]

\* validateCardRow, read at clock value t
validateCardRow(row, rowNumber, t) ==
    LET cardErrors ==
            IF Falsy(Get(row, "card")) THEN <<"Card number is required">>
            ELSE IF ~validateCardNumber(Get(row, "card"))
                 THEN <<"Invalid card number format or Luhn check failed">>
                 ELSE <<>>
        expErrors ==
            IF Falsy(Get(row, "exp")) THEN <<"Expiration date is required">>
            ELSE IF ~validateExpirationDate(Get(row, "exp"), t)
                 THEN <<"Invalid expiration date format or date is in the past">>
                 ELSE <<>>
        firstErrors == IF OutOfRange(Get(row, "first"), 1, MaxNameLen)
                       THEN <<"First name must be 1-50 characters">> ELSE <<>>
        lastErrors == IF OutOfRange(Get(row, "last"), 1, MaxNameLen)
                      THEN <<"Last name must be 1-50 characters">> ELSE <<>>
        zipErrors == IF OutOfRange(Get(row, "zip"), MinZipLen, MaxZipLen)
                     THEN <<"ZIP code must be 3-10 characters">> ELSE <<>>
        tokenErrors == IF OutOfRange(Get(row, "token"), 1, MaxTokenLen)
                       THEN <<"Token must be 1-100 characters">> ELSE <<>>
    IN ValidationOf(cardErrors \o expErrors \o firstErrors \o lastErrors \o zipErrors
                        \o tokenErrors, rowNumber)

\* errors.join(sep)
RECURSIVE Join(_, _)
Join(msgs, sep) ==
    IF msgs = <<>> THEN <<>>
    ELSE IF Len(msgs) = 1 THEN <<msgs[1]>>
    ELSE <<msgs[1], sep>> \o Join(Tail(msgs), sep)

\* the stripe_ columns of a result row
StripeColumns(platform, connected, pmId, cusId, siId, siPm, card, status, error) ==
    [stripe_platform_account |-> platform,
     stripe_connected_account |-> connected,
     stripe_payment_method_id |-> pmId,
     stripe_customer_id |-> cusId,
     stripe_setup_intent_id |-> siId,
     stripe_setup_intent_payment_method_id |-> siPm,
     stripe_card_brand |-> card.brand,
     stripe_card_last4 |-> card.last4,
     stripe_card_exp_month |-> card.exp_month,
     stripe_card_exp_year |-> card.exp_year,
     stripe_status |-> status,
     stripe_error |-> error]

NoCardDetails == [brand |-> EMPTY, last4 |-> EMPTY, exp_month |-> EMPTY, exp_year |-> EMPTY]

\* { ...originalRow, stripe_...: ... }: the stripe_ columns win over the row's own
SpreadRow(originalRow, columns) == columns @@ originalRow

\* results.push for a row that fails validateCardRow (lines 548-562)
InvalidResult(originalRow, validation) ==
    SpreadRow(originalRow,
        StripeColumns(EMPTY, EMPTY, EMPTY, EMPTY, EMPTY, EMPTY, NoCardDetails,
                      <<"invalid">>, Join(validation.errors, "; ")))

\* results.push for an imported row (lines 576-590)
SuccessResult(originalRow, platform, connected, customer, paymentMethod, setupIntent) ==
    SpreadRow(originalRow,
        StripeColumns(platform, Or(connected, EMPTY), paymentMethod.id, customer.id,
                      setupIntent.id, setupIntent.payment_method, paymentMethod.card,
                      <<"success">>, EMPTY))

\* results.push for a row whose Stripe call threw (lines 604-618)
FailedResult(originalRow, platform, connected, error) ==
    SpreadRow(originalRow,
        StripeColumns(platform, Or(connected, EMPTY), EMPTY, EMPTY, EMPTY, EMPTY,
                      NoCardDetails, <<"failed">>, error.message))

\* an account of the command line, else of the platform's profile, else of the
\* default profile
FromProfile(pm, options, given, ofPlatform, ofDefault) ==
    IF Truthy(given) THEN given
    ELSE IF Truthy(options.platform) THEN ofPlatform
    ELSE IF Truthy(pm.defaultProfile) THEN ofDefault
    ELSE given

AccountsFrom(loaded, w, options, environment) ==
    IF loaded.threw
    THEN [platformAccount |-> options.account, connectedAccount |-> options.connectedAccount]
    ELSE [platformAccount |->
              FromProfile(loaded.val, options, options.account,
                          getProfileAccount(loaded.val, w.config, options.platform),
                          getProfileAccount(loaded.val, w.config, loaded.val.defaultProfile)),
          connectedAccount |->
              FromProfile(loaded.val, options, options.connectedAccount,
                          getProfileConnectedAccount(loaded.val, w.config, options.platform,
                                                     environment),
                          getProfileConnectedAccount(loaded.val, w.config,
                                                     loaded.val.defaultProfile, environment))]

\* lines 352-390: account and connected account from the options, else from the
\* platform's or the default profile; a profile error leaves the options as given
ResolveAccounts(w, options) ==
    AccountsFrom(loadProfiles(w), w, options, detectEnvironment(options, w.config))

\* isDryRun with the --dry-run flag ignored
isDryRun_Never(options) == FALSE

\* options.dryRun || false
isDryRun(options) == options.dryRun

\* the abort test asking for more than one valid row
NoValidCards_OffByOne(n) == n <= 1

\* validCards === 0 (line 485)
NoValidCards(n) == n = 0

\* the invalid-row branch without its results.push
RecordInvalid_Skipped(rs, originalRow, validation) == rs

\* results.push of the invalid-row branch of the import loop
RecordInvalid(rs, originalRow, validation) == Append(rs, InvalidResult(originalRow, validation))

-----------------------------------------------------------------------------
(* The inputs of a card import: the CSV, the files, the command line *)

\* the most rows a CSV input has
MaxRows == 2

Row(card, exp, zip) ==
    [card |-> card, exp |-> exp, first |-> <<"A", "n", "n">>, last |-> EMPTY, zip |-> zip]

\* a Luhn-valid card that expires in 2030
RowOK == Row(<<"4", "2", "4", "2", "4", "2", "4", "2", "4", "2", "4", "2", "4", "2", "4", "2">>, <<"1", "2", "/", "3", "0">>, <<"9", "4", "1", "0", "7">>)
\* a Luhn-valid card that expires at the end of the month after Today
RowSoon == Row(<<"5", "5", "5", "5", "5", "5", "5", "5", "5", "5", "5", "5", "4", "4", "4", "4">>, <<"1", "2", "2", "6">>, EMPTY)
\* a card number that fails the Luhn check, and a ZIP that is too short
RowBadLuhn == Row(<<"4", "2", "4", "2", "4", "2", "4", "2", "4", "2", "4", "2", "4", "2", "4", "1">>, <<"1", "2", "/", "3", "0">>, <<"9", "4">>)
RowTypes == {RowOK, RowSoon, RowBadLuhn}

RECURSIVE SeqsUpTo(_, _)
SeqsUpTo(S, n) ==
    IF n = 0 THEN {<<>>}
    ELSE SeqsUpTo(S, n - 1) \cup
         {Append(q, x) : q \in {r \in SeqsUpTo(S, n - 1) : Len(r) = n - 1}, x \in S}

CsvInputs == SeqsUpTo(RowTypes, MaxRows)

CardsCsv == <<"cards.csv">>
MissingCsv == <<"missing.csv">>

AcctOption == <<"acct_", "--account">>
ConnOption == <<"acct_", "--connected-account">>
AcctProfile == <<"acct_", "profile">>
ConnProfile == <<"acct_", "profile", "connected">>
AcctConfig == <<"acct_", "config">>

NoSecrets == [exists |-> FALSE, lines |-> <<>>]

\* [vet] with a restricted key and its accounts
SecretsWithAccounts ==
    [exists |-> TRUE,
     lines |-> SectionLines(VET, Shape({"restricted_key"}, {}))
               \o <<KVLine("account", AcctProfile), KVLine("connected_account", ConnProfile)>>]

\* [vet] with a restricted key only
SecretsKeyOnly == [exists |-> TRUE, lines |-> SectionLines(VET, Shape({"restricted_key"}, {}))]

NoConfig == [default_platform |-> UNDEFINED, commands |-> CommandKeys, platform |-> NoPlatforms]

\* config.yml: vet is the default platform and has an account
ConfigVet ==
    [default_platform |-> VET, commands |-> CommandKeys,
     platform |-> [n \in {VET} |-> PlatformEntry(AcctConfig, UNDEFINED, UNDEFINED)]]

\* the files of a run: .secrets and config.yml
ImportFiles ==
    {[secrets |-> NoSecrets, config |-> NoConfig],
     [secrets |-> SecretsWithAccounts, config |-> ConfigVet],
     [secrets |-> SecretsKeyOnly, config |-> ConfigVet],
     [secrets |-> SecretsKeyOnly, config |-> NoConfig]}

ImportWorldOf(f, tty, rows, unreadable) ==
    [secrets |-> f.secrets, config |-> f.config, env |-> [STRIPE_SECRET_KEY |-> UNDEFINED],
     stdinIsTTY |-> tty, files |-> {CardsCsv}, csv |-> rows, csvUnreadable |-> unreadable]

\* the input is a CSV that can be read, or a terminal, or a stream that fails
ImportWorlds ==
    {ImportWorldOf(f, FALSE, rows, FALSE) : f \in ImportFiles, rows \in CsvInputs}
    \cup {ImportWorldOf(f, TRUE, <<RowOK>>, FALSE) : f \in ImportFiles}
    \cup {ImportWorldOf(f, FALSE, <<>>, TRUE) : f \in ImportFiles}

\* how the command line names the key, the accounts and the input
ImportSetups ==
    {[key |-> <<"rk_", "--key">>, platform |-> UNDEFINED, account |-> AcctOption,
      connectedAccount |-> ConnOption, file |-> UNDEFINED],
     [key |-> UNDEFINED, platform |-> VET, account |-> UNDEFINED,
      connectedAccount |-> UNDEFINED, file |-> CardsCsv],
     [key |-> UNDEFINED, platform |-> UNDEFINED, account |-> UNDEFINED,
      connectedAccount |-> UNDEFINED, file |-> CardsCsv],
     [key |-> <<"sk_", "--key">>, platform |-> UNDEFINED, account |-> AcctOption,
      connectedAccount |-> UNDEFINED, file |-> CardsCsv],
     [key |-> <<"rk_", "--key">>, platform |-> UNDEFINED, account |-> UNDEFINED,
      connectedAccount |-> UNDEFINED, file |-> MissingCsv]}

ImportModes ==
    {[dryRun |-> FALSE, verbose |-> FALSE, format |-> <<"csv">>],
     [dryRun |-> FALSE, verbose |-> TRUE, format |-> <<"json">>],
     [dryRun |-> TRUE, verbose |-> FALSE, format |-> <<"csv">>],
     [dryRun |-> TRUE, verbose |-> TRUE, format |-> <<"json">>]}

ImportOptions ==
    {[key |-> u.key, platform |-> u.platform, environment |-> UNDEFINED, test |-> FALSE,
      account |-> u.account, connectedAccount |-> u.connectedAccount, file |-> u.file,
      dryRun |-> m.dryRun, verbose |-> m.verbose, format |-> m.format] :
        u \in ImportSetups, m \in ImportModes}

-----------------------------------------------------------------------------
(* importCards, step by step.  A step runs from one await to the next.      *)

\* the answers of the Stripe API (the wrapped library): ids per row, or an error
RowDigit(i) == <<"1", "2", "3", "4", "5", "6", "7", "8", "9">>[i]
CustomerOf(i) == [id |-> <<"cus_", RowDigit(i)>>]
PaymentMethodOf(i, card) ==
    [id |-> <<"pm_", RowDigit(i)>>,
     card |-> [brand |-> <<"visa">>,
               last4 |-> IF Len(card) >= 4 THEN SubSeq(card, Len(card) - 3, Len(card)) ELSE card,
               exp_month |-> <<"exp_month">>, exp_year |-> <<"exp_year">>]]
SetupIntentOf(i, paymentMethod) ==
    [id |-> <<"seti_", RowDigit(i)>>, payment_method |-> paymentMethod.id]

\* the errors a Stripe call is rejected with: a bad key or missing permission
\* shows at the first call of a row, a declined card at the second, an API error
\* or an error without a Stripe type at the third
StripeErrors(api, i) ==
    IF api = "customers.create"
    THEN IF i % 2 = 1
         THEN {[type |-> <<"StripeAuthenticationError">>, message |-> <<"Invalid API Key provided">>]}
         ELSE {[type |-> <<"StripePermissionError">>, message |-> <<"Permission denied">>]}
    ELSE IF api = "paymentMethods.create"
    THEN {[type |-> <<"StripeCardError">>, message |-> <<"Your card was declined.">>]}
    ELSE IF i % 2 = 1
         THEN {[type |-> <<"StripeAPIError">>, message |-> <<"Stripe is unavailable">>]}
         ELSE {[type |-> UNDEFINED, message |-> <<"socket hang up">>]}

StripeCall(api, i, account) == [api |-> api, row |-> i, account |-> account]

\* a line on stderr: what it is about and the card text it shows, if any
Line(kind, text) == [kind |-> kind, text |-> text]

HeaderLines(options, platform, connected) ==
    <<Line("input", IF Falsy(options.file) THEN <<"stdin">> ELSE options.file),
      Line("platform", platform)>>
    \o (IF Truthy(connected) THEN <<Line("connected", connected)>> ELSE <<>>)
    \o <<Line("mode", IF isDryRun(options) THEN <<"DRY RUN">> ELSE <<"LIVE IMPORT">>)>>

\* the checks of the input taken in another order: the file before the account
InputChecks_FileFirst(w, options, accounts) ==
    IF Falsy(options.file) /\ w.stdinIsTTY
    THEN Thrown(<<"CSV file is required. Use --file option or redirect input">>)
    ELSE IF Truthy(options.file) /\ options.file \notin w.files
    THEN Thrown(<<"CSV file not found: ">> \o options.file)
    ELSE IF Falsy(accounts.platformAccount)
    THEN Thrown(<<"Platform account ID is required. Use --account option or set account in profile.">>)
    ELSE Returned(UNDEFINED)

\* lines 346-398: a terminal as stdin, then the platform account, then the file
InputChecks(w, options, accounts) ==
    IF Falsy(options.file) /\ w.stdinIsTTY
    THEN Thrown(<<"CSV file is required. Use --file option or redirect input">>)
    ELSE IF Falsy(accounts.platformAccount)
    THEN Thrown(<<"Platform account ID is required. Use --account option or set account in profile.">>)
    ELSE IF Truthy(options.file) /\ options.file \notin w.files
    THEN Thrown(<<"CSV file not found: ">> \o options.file)
    ELSE Returned(UNDEFINED)

\* lines 341-415, once the key and the accounts are known
StartWith(options, secretKey, accounts) ==
    LET client == createStripeClient(secretKey.val)
        failure ==
            IF secretKey.threw THEN secretKey
            ELSE IF client.threw THEN client
            ELSE InputChecks(world, options, accounts)
    IN
    /\ call' = [fn |-> "importCards", options |-> options]
    /\ stripe' = IF secretKey.threw \/ client.threw THEN NULL ELSE client.val
    /\ IF failure.threw
       THEN /\ pc' = "rejected"
            /\ outcome' = failure
            /\ UNCHANGED <<platformAccount, connectedAccount, stderr>>
       ELSE /\ pc' = "parsing"
            /\ outcome' = Pending
            /\ platformAccount' = accounts.platformAccount
            /\ connectedAccount' = accounts.connectedAccount
            /\ stderr' = HeaderLines(options, accounts.platformAccount, accounts.connectedAccount)

\* lines 339-415: up to the await of the CSV stream
ImportStart ==
    /\ pc = "idle"
    /\ \E options \in ImportOptions :
        StartWith(options, getStripeKey(world, options, CmdImport), ResolveAccounts(world, options))
    /\ UNCHANGED <<exitCode, deleteVars, manager, searchVars, world, now, cards, originalRows, idx, validCards, errors, results,
                   successCount, failCount, processedCount, created, apiCalls, inflight, stdout>>

\* the first pass over the rows (lines 454-469): the entries of `errors`
RECURSIVE ValidationErrors(_, _, _)
ValidationErrors(rows, i, t) ==
    IF i > Len(rows) THEN <<>>
    ELSE LET validation == validateCardRow(rows[i], i + 1, t) IN
         (IF validation.isValid THEN <<>>
          ELSE <<[row |-> i + 1,
                  card |-> Or(maskCardNumber(Get(rows[i], "card")), <<"N/A">>),
                  errors |-> validation.errors]>>)
         \o ValidationErrors(rows, i + 1, t)

CountValid(rows, t) == Cardinality({i \in 1..Len(rows) : validateCardRow(rows[i], i + 1, t).isValid})

ErrorLines(errs) ==
    (IF errs # <<>> THEN <<Line("invalid-count", <<>>)>> ELSE <<>>)
    \o [k \in 1..Len(errs) |-> Line("validation-error", errs[k].card)]

ValidationLines(rows, t) ==
    <<Line("found", <<>>), Line("valid-count", <<>>)>> \o ErrorLines(ValidationErrors(rows, 1, t))

\* the catch at lines 679-689
Rewrap(error) ==
    IF error.type = <<"StripeAuthenticationError">>
    THEN Thrown(<<"Invalid Stripe API key. Please check your API key.">>)
    ELSE IF error.type = <<"StripePermissionError">>
    THEN Thrown(<<"Insufficient permissions. Make sure your API key has the required permissions.">>)
    ELSE IF error.type = <<"StripeAPIError">>
    THEN Thrown(<<"Stripe API error: ">> \o error.message)
    ELSE Thrown(<<"Import failed: ">> \o error.message)

PlainError(message) == [type |-> UNDEFINED, message |-> message]

\* the CSV stream ended without a row (lines 436-438)
CsvEmpty ==
    /\ pc = "parsing"
    /\ ~world.csvUnreadable
    /\ Len(world.csv) = 0
    /\ pc' = "rejected"
    /\ outcome' = Rewrap(PlainError(<<"No data found in CSV file">>))
    /\ UNCHANGED <<exitCode, deleteVars, manager, searchVars, world, now, call, stripe, platformAccount, connectedAccount, cards,
                   originalRows, idx, validCards, errors, results, successCount, failCount,
                   processedCount, created, apiCalls, inflight, stdout, stderr>>

\* what lines 440-483 leave behind when the stream ended with rows
Validated ==
    /\ pc = "parsing"
    /\ ~world.csvUnreadable
    /\ Len(world.csv) > 0
    /\ cards' = world.csv
    /\ originalRows' = world.csv
    /\ errors' = ValidationErrors(world.csv, 1, now)
    /\ validCards' = CountValid(world.csv, now)
    /\ UNCHANGED <<exitCode, deleteVars, manager, searchVars, world, now, call, stripe, platformAccount, connectedAccount, results,
                   successCount, failCount, processedCount, created, apiCalls, inflight, stdout>>

\* no row is valid (lines 485-487)
CsvNoValidCards ==
    /\ Validated
    /\ NoValidCards(validCards')
    /\ pc' = "rejected"
    /\ outcome' = Rewrap(PlainError(<<"No valid cards found to import">>))
    /\ idx' = idx
    /\ stderr' = stderr \o ValidationLines(world.csv, now)

\* --dry-run (lines 489-502)
CsvDryRun ==
    /\ Validated
    /\ ~NoValidCards(validCards')
    /\ isDryRun(call.options)
    /\ pc' = "done"
    /\ outcome' = Returned(UNDEFINED)
    /\ idx' = idx
    /\ stderr' = stderr \o ValidationLines(world.csv, now) \o <<Line("dry-run-summary", <<>>)>>

\* the import begins (lines 504-537)
CsvStartImport ==
    /\ Validated
    /\ ~NoValidCards(validCards')
    /\ ~isDryRun(call.options)
    /\ pc' = "loop"
    /\ outcome' = outcome
    /\ idx' = 1
    /\ stderr' = stderr \o ValidationLines(world.csv, now) \o <<Line("starting", <<>>)>>

\* the stream emitted 'error' (line 433)
CsvStreamError ==
    /\ pc = "parsing"
    /\ world.csvUnreadable
    /\ pc' = "rejected"
    /\ outcome' = Rewrap(PlainError(<<"read error">>))
    /\ UNCHANGED <<exitCode, deleteVars, manager, searchVars, world, now, call, stripe, platformAccount, connectedAccount, cards,
                   originalRows, idx, validCards, errors, results, successCount, failCount,
                   processedCount, created, apiCalls, inflight, stdout, stderr>>

isVerbose(options) == options.verbose

\* updateProgress(processed, last4OrMasked), written when not verbose
ProgressLines(options, text) ==
    IF isVerbose(options) THEN <<>> ELSE <<Line("progress", Or(text, EMPTY))>>

\* a row of the loop that fails validateCardRow (lines 539-564)
ImportInvalidRow ==
    /\ pc = "loop"
    /\ idx <= Len(cards)
    /\ LET card == cards[idx]
           validation == validateCardRow(card, idx + 1, now)
       IN /\ ~validation.isValid
          /\ failCount' = failCount + 1
          /\ processedCount' = processedCount + 1
          /\ stderr' = stderr \o ProgressLines(call.options, maskCardNumber(Get(card, "card")))
          /\ results' = RecordInvalid(results, originalRows[idx], validation)
    /\ idx' = idx + 1
    /\ UNCHANGED <<exitCode, deleteVars, manager, searchVars, world, now, call, outcome, pc, stripe, platformAccount, connectedAccount,
                   cards, originalRows, validCards, errors, successCount, created, apiCalls,
                   inflight, stdout>>

\* the account of the calls taken to be the platform account always
TargetAccount_PlatformOnly(connected, platform) == platform

\* connectedAccount || platformAccount (line 573)
TargetAccount(connected, platform) == Or(connected, platform)

\* a call whose answer has arrived, kept among the calls in flight
Settled_StillInFlight(flying, answered) == flying

\* await: the call whose answer has arrived is in flight no longer
Settled(flying, answered) == flying \ {answered}

\* the call that importCards is waiting for
AwaitedCall == StripeCall(pc, idx, TargetAccount(connectedAccount, platformAccount))

\* stripe.<api>.create(params, {stripeAccount: accountId}) is sent, after the
\* answer to the call before it, if there was one
Send(api) ==
    /\ apiCalls' = Append(apiCalls,
           StripeCall(api, idx, TargetAccount(connectedAccount, platformAccount)))
    /\ inflight' = Settled(inflight, AwaitedCall)
                       \cup {StripeCall(api, idx, TargetAccount(connectedAccount, platformAccount))}
    /\ pc' = api

\* nothing has been created for the row yet
NotYet == [id |-> UNDEFINED]

\* the calls of a row with the setup intent before the payment method
NextStep_SetupIntentFirst(api) ==
    IF api = "customers.create" THEN "setupIntents.create" ELSE "paymentMethods.create"

\* createStripeCustomerAndSaveCard: the call that follows an answered one
\* (lines 248, 288, 304)
NextStep(api) ==
    IF api = "customers.create" THEN "paymentMethods.create" ELSE "setupIntents.create"

\* a valid row: lines 566-573 and createStripeCustomerAndSaveCard up to its first await
ImportValidRow ==
    /\ pc = "loop"
    /\ idx <= Len(cards)
    /\ validateCardRow(cards[idx], idx + 1, now).isValid
    /\ stderr' = stderr \o
           (IF isVerbose(call.options)
            THEN <<Line("processing", maskCardNumber(Get(cards[idx], "card")))>>
            ELSE ProgressLines(call.options, maskCardNumber(Get(cards[idx], "card"))))
    /\ Send("customers.create")
    /\ created' = [customer |-> NotYet, paymentMethod |-> NotYet]
    /\ UNCHANGED <<exitCode, deleteVars, manager, searchVars, world, now, call, outcome, stripe, platformAccount, connectedAccount, cards,
                   originalRows, idx, validCards, errors, results, successCount, failCount,
                   processedCount, stdout>>

\* customers.create answered (lines 248-290)
CustomerCreated ==
    /\ pc = "customers.create"
    /\ created' = [created EXCEPT !.customer = CustomerOf(idx)]
    /\ Send(NextStep("customers.create"))
    /\ UNCHANGED <<exitCode, deleteVars, manager, searchVars, world, now, call, outcome, stripe, platformAccount, connectedAccount, cards,
                   originalRows, idx, validCards, errors, results, successCount, failCount,
                   processedCount, stdout, stderr>>

\* paymentMethods.create answered (lines 288-306)
PaymentMethodCreated ==
    /\ pc = "paymentMethods.create"
    /\ created' = [created EXCEPT !.paymentMethod = PaymentMethodOf(idx, Get(cards[idx], "card"))]
    /\ Send(NextStep("paymentMethods.create"))
    /\ UNCHANGED <<exitCode, deleteVars, manager, searchVars, world, now, call, outcome, stripe, platformAccount, connectedAccount, cards,
                   originalRows, idx, validCards, errors, results, successCount, failCount,
                   processedCount, stdout, stderr>>

\* setupIntents.create answered: the row is imported (lines 304-312, 574-598)
SetupIntentCreated ==
    /\ pc = "setupIntents.create"
    /\ LET setupIntent == SetupIntentOf(idx, created.paymentMethod) IN
       /\ processedCount' = processedCount + 1
       /\ results' = Append(results,
              SuccessResult(originalRows[idx], platformAccount, connectedAccount,
                            created.customer, created.paymentMethod, setupIntent))
       /\ successCount' = successCount + 1
       /\ stderr' = stderr \o
              (IF isVerbose(call.options)
               THEN <<Line("created", created.customer.id \o created.paymentMethod.id \o setupIntent.id)>>
               ELSE ProgressLines(call.options,
                        maskCardNumber(Get(cards[idx], "card")) \o <<" ", "ok">>))
    /\ inflight' = Settled(inflight, AwaitedCall)
    /\ created' = NULL
    /\ idx' = idx + 1
    /\ pc' = "loop"
    /\ UNCHANGED <<exitCode, deleteVars, manager, searchVars, world, now, call, outcome, stripe, platformAccount, connectedAccount, cards,
                   originalRows, validCards, errors, failCount, apiCalls, stdout>>

StripeCallStates == {"customers.create", "paymentMethods.create", "setupIntents.create"}

\* the catch of the row, without the errors of a bad key
CaughtPerRow_NotAuthentication(error) == error.type # <<"StripeAuthenticationError">>

\* try { ... } catch (error) around the calls of a row (lines 566, 600): every
\* error is caught there
CaughtPerRow(error) == TRUE

\* a Stripe call rejected: the catch of the row (lines 600-623)
StripeCallFailed ==
    /\ pc \in StripeCallStates
    /\ \E error \in StripeErrors(pc, idx) :
        IF CaughtPerRow(error)
        THEN /\ failCount' = failCount + 1
             /\ processedCount' = processedCount + 1
             /\ results' = Append(results,
                    FailedResult(originalRows[idx], platformAccount, connectedAccount, error))
             /\ stderr' = stderr \o
                    (IF isVerbose(call.options)
                     THEN <<Line("failed", error.message)>>
                     ELSE ProgressLines(call.options,
                              maskCardNumber(Get(cards[idx], "card")) \o <<" ", "x">>))
             /\ idx' = idx + 1
             /\ pc' = "loop"
             /\ outcome' = outcome
        ELSE /\ pc' = "rejected"
             /\ outcome' = Rewrap(error)
             /\ UNCHANGED <<failCount, processedCount, results, stderr, idx>>
    /\ inflight' = Settled(inflight, AwaitedCall)
    /\ created' = NULL
    /\ UNCHANGED <<exitCode, deleteVars, manager, searchVars, world, now, call, stripe, platformAccount, connectedAccount, cards,
                   originalRows, validCards, errors, successCount, apiCalls, stdout>>

\* String(val ?? '')
CsvCell(v) == IF v \in {NULL, UNDEFINED} THEN EMPTY ELSE v

stripeColumnKeys ==
    {"stripe_platform_account", "stripe_connected_account", "stripe_payment_method_id",
     "stripe_customer_id", "stripe_setup_intent_id", "stripe_setup_intent_payment_method_id",
     "stripe_card_brand", "stripe_card_last4", "stripe_card_exp_month", "stripe_card_exp_year",
     "stripe_status", "stripe_error"}

\* the text written to stdout (lines 654-677)
Output(options, platform, connected, cs, original, rs, ok, failed) ==
    IF options.format = <<"json">>
    THEN [format |-> "json",
          summary |-> [platform_account |-> platform,
                       connected_account |-> Or(connected, NULL),
                       total_cards |-> Len(cs),
                       successful_imports |-> ok,
                       failed_imports |-> failed],
          rows |-> rs]
    ELSE LET originalHeaders == DOMAIN original[1] IN
         [format |-> "csv",
          header |-> originalHeaders \cup stripeColumnKeys,
          rows |-> [k \in 1..Len(rs) |->
                       [h \in originalHeaders \cup stripeColumnKeys |-> CsvCell(Get(rs[k], h))]]]

SummaryLines(connected, failed, rs) ==
    <<Line("summary-platform", <<>>)>>
    \o (IF Truthy(connected) THEN <<Line("summary-connected", <<>>)>> ELSE <<>>)
    \o <<Line("summary-imported", <<>>)>>
    \o (IF failed > 0 THEN <<Line("summary-failed", <<>>)>> ELSE <<>>)
    \o (IF \E k \in 1..Len(rs) : rs[k].stripe_status = <<"failed">> /\ Truthy(rs[k].stripe_error)
        THEN LET first == CHOOSE k \in 1..Len(rs) :
                     /\ rs[k].stripe_status = <<"failed">> /\ Truthy(rs[k].stripe_error)
                     /\ \A j \in 1..(k - 1) :
                            ~(rs[j].stripe_status = <<"failed">> /\ Truthy(rs[j].stripe_error))
             IN <<Line("first-error", rs[first].stripe_error)>>
        ELSE <<>>)

\* the results written in two pieces, the header line first
WriteResults_HeaderFirst(out, document) ==
    Append(Append(out, [document EXCEPT !.rows = <<>>]), document)

\* process.stdout.write(text): one write with the whole document
WriteResults(out, document) == Append(out, document)

\* after the last row: summary to stderr, results to stdout (lines 626-677)
ImportFinish ==
    /\ pc = "loop"
    /\ idx > Len(cards)
    /\ stderr' = stderr \o SummaryLines(connectedAccount, failCount, results)
    /\ stdout' = WriteResults(stdout,
           Output(call.options, platformAccount, connectedAccount, cards, originalRows,
                  results, successCount, failCount))
    /\ pc' = "done"
    /\ outcome' = Returned(UNDEFINED)
    /\ UNCHANGED <<exitCode, deleteVars, manager, searchVars, world, now, call, stripe, platformAccount, connectedAccount, cards,
                   originalRows, idx, validCards, errors, results, successCount, failCount,
                   processedCount, created, apiCalls, inflight>>

\* the wall clock (new Date()) moves on to the next month while the import runs
MaxTicks == 1

Tick ==
    /\ pc \in {"parsing", "loop"} \cup StripeCallStates
    /\ now < Today + MaxTicks
    /\ now' = now + 1
    /\ UNCHANGED <<exitCode, deleteVars, manager, searchVars, world, call, outcome, pc, stripe, platformAccount, connectedAccount, cards,
                   originalRows, idx, validCards, errors, results, successCount, failCount,
                   processedCount, created, apiCalls, inflight, stdout, stderr>>

-----------------------------------------------------------------------------
(* Card import: one call of importCards in some world *)

InitImport ==
    /\ world \in ImportWorlds
    /\ now = Today
    /\ call = NoCall
    /\ outcome = Pending
    /\ ImportIdle

NextImport ==
    \/ ImportStart
    \/ CsvEmpty
    \/ CsvStreamError
    \/ CsvNoValidCards
    \/ CsvDryRun
    \/ CsvStartImport
    \/ ImportInvalidRow
    \/ ImportValidRow
    \/ CustomerCreated
    \/ PaymentMethodCreated
    \/ SetupIntentCreated
    \/ StripeCallFailed
    \/ ImportFinish
    \/ Tick

SpecImport == InitImport /\ [][NextImport]_vars

-----------------------------------------------------------------------------
(* Claims about the card import *)

ImportCalled == call.fn = "importCards"
LiveRun == ImportCalled /\ ~call.options.dryRun
DryRun == ImportCalled /\ call.options.dryRun

\* the validation pass has run: the rows of the CSV are in `cards`
RowsRead == ImportCalled /\ cards # <<>>
RunEnded == pc \in {"done", "rejected"}

StatusCount(rs, status) == Cardinality({k \in 1..Len(rs) : rs[k].stripe_status = status})
NoStripeFailure == StatusCount(results, <<"failed">>) = 0

\* the result rows of the one write to stdout
WrittenRows == IF stdout = <<>> THEN <<>> ELSE stdout[1].rows

\* C4 (as stated): a live run without Stripe failures over a CSV with N valid and
\* M invalid rows ends with N successes, M failures and N+M rows written.
C4_CountsAsStated ==
    (RowsRead /\ RunEnded /\ LiveRun /\ NoStripeFailure) =>
        /\ successCount = validCards
        /\ failCount = Len(errors)
        /\ Len(stdout) = 1
        /\ Len(WrittenRows) = validCards + Len(errors)

\* C4 (amended): a live run without Stripe failures that found at least one valid
\* row completes and writes one result row per input row, in input order; its
\* successes and failures are the rows that passed and failed validateCardRow
\* when the loop reached them, and these are the N and M of the validation pass
\* whenever the clock stayed within the month of the start.
C4_CountsWhenSomeValid ==
    (RowsRead /\ RunEnded /\ LiveRun /\ NoStripeFailure /\ validCards >= 1) =>
        /\ pc = "done"
        /\ Len(stdout) = 1
        /\ Len(WrittenRows) = Len(world.csv)
        /\ Len(world.csv) = validCards + Len(errors)
        /\ \A k \in 1..Len(WrittenRows) :
               /\ \A h \in DOMAIN world.csv[k] : WrittenRows[k][h] = world.csv[k][h]
               /\ WrittenRows[k].stripe_status \in {<<"success">>, <<"invalid">>}
               /\ \E t \in Today..now :
                      (WrittenRows[k].stripe_status = <<"success">>)
                          = validateCardRow(world.csv[k], k + 1, t).isValid
        /\ successCount = StatusCount(WrittenRows, <<"success">>)
        /\ failCount = StatusCount(WrittenRows, <<"invalid">>)
        /\ (now = Today => successCount = validCards /\ failCount = Len(errors))

\* C4 witness: a live run over a valid and an invalid row has written its results
C4_Witness ==
    /\ LiveRun /\ pc = "done" /\ NoStripeFailure
    /\ world.csv = <<RowBadLuhn, RowOK>>
    /\ successCount = 1 /\ failCount = 1
    /\ Len(WrittenRows) = 2

AbortMessage == <<"Import failed: ", "No valid cards found to import">>
AbortedNoValid == pc = "rejected" /\ outcome = Thrown(AbortMessage)

\* C5: the import aborts with 'No valid cards found to import' exactly when rows
\* were parsed and none of them passed validation, in dry-run and live mode alike;
\* with a valid row it never aborts: every row is processed in order, and an
\* invalid row is recorded with the messages of validateCardRow.
C5_AbortOnlyWhenNoneValid ==
    /\ AbortedNoValid <=> (RowsRead /\ validCards = 0)
    /\ RowsRead =>
           /\ \E t \in Today..now : validCards = CountValid(world.csv, t)
           /\ validCards + Len(errors) = Len(world.csv)
           /\ \A j \in 1..Len(errors) : \E t \in Today..now :
                  LET validation == validateCardRow(world.csv[errors[j].row - 1], errors[j].row, t)
                  IN ~validation.isValid /\ errors[j].errors = validation.errors
    /\ (RowsRead /\ validCards >= 1) =>
           /\ pc # "rejected"
           /\ (pc = "loop" => Len(results) = idx - 1)
           /\ (pc \in StripeCallStates => Len(results) = idx - 1 /\ idx <= Len(cards))
           /\ (pc = "done" /\ LiveRun => Len(results) = Len(world.csv))
           /\ \A k \in 1..Len(results) :
                  results[k].stripe_status = <<"invalid">> =>
                      \E t \in Today..now :
                          LET validation == validateCardRow(world.csv[k], k + 1, t) IN
                          /\ ~validation.isValid
                          /\ results[k].stripe_error = Join(validation.errors, "; ")

\* C5 witness: the row after an invalid row was imported
C5_Witness ==
    /\ LiveRun /\ pc = "done"
    /\ world.csv = <<RowBadLuhn, RowOK>>
    /\ results[1].stripe_status = <<"invalid">>
    /\ results[1].stripe_error =
           <<"Invalid card number format or Luhn check failed", "; ",
             "ZIP code must be 3-10 characters">>
    /\ results[2].stripe_status = <<"success">>

\* C5 witness of the abort: a dry run over invalid rows only
C5_AbortWitness ==
    /\ DryRun /\ AbortedNoValid
    /\ world.csv = <<RowBadLuhn, RowBadLuhn>>

\* the values of an output row
FieldsOf(row) == {row[h] : h \in DOMAIN row}

\* C6: no result row written to stdout contains the full card number that was
\* read from the input row.
C6_OutputMasked ==
    \A w \in 1..Len(stdout) : \A k \in 1..Len(stdout[w].rows) :
        Len(world.csv[k].card) > MaskKeep => world.csv[k].card \notin FieldsOf(stdout[w].rows[k])

\* C10: a dry run sends no request to Stripe and writes no result row, whatever
\* the input; it ends right after the validation pass.
C10_DryRunNoStripeCalls ==
    DryRun =>
        /\ apiCalls = <<>> /\ inflight = {}
        /\ results = <<>> /\ stdout = <<>>
        /\ pc \in {"parsing", "rejected", "done"}
        /\ successCount = 0 /\ failCount = 0 /\ processedCount = 0
        /\ (pc = "done" => RowsRead /\ validCards >= 1 /\ outcome = Returned(UNDEFINED))

\* C10 witness: the dry run over a valid and an invalid row has returned
C10_Witness ==
    /\ DryRun /\ pc = "done"
    /\ world.csv = <<RowOK, RowBadLuhn>>
    /\ validCards = 1 /\ Len(errors) = 1
    /\ outcome = Returned(UNDEFINED)

FailedRows == {k \in 1..Len(results) : results[k].stripe_status = <<"failed">>}

\* the messages the Stripe calls of row k can be rejected with
MessagesOf(k) ==
    {e.message : e \in StripeErrors("customers.create", k)
                       \cup StripeErrors("paymentMethods.create", k)
                       \cup StripeErrors("setupIntents.create", k)}

\* C11: in a live run a Stripe call that fails never aborts the batch: the row is
\* recorded as failed with the message of the error, the run goes on with the
\* rows after it, and it ends without an exception, with one result per row.
C11_StripeFailureKeepsBatch ==
    (LiveRun /\ RowsRead /\ validCards >= 1) =>
        /\ pc # "rejected"
        /\ outcome \in {Pending, Returned(UNDEFINED)}
        /\ failCount = Cardinality(FailedRows)
                         + StatusCount(results, <<"invalid">>)
        /\ \A k \in FailedRows :
               /\ results[k].stripe_error \in MessagesOf(k)
               /\ results[k].card = world.csv[k].card
               /\ results[k].stripe_customer_id = EMPTY
        /\ (pc = "loop" => Len(results) = idx - 1)
        /\ (pc = "done" => Len(results) = Len(world.csv) /\ outcome = Returned(UNDEFINED))

\* C11 witness: the calls of both rows failed, with a bad key and with a declined
\* card, and the import has returned
C11_Witness ==
    /\ LiveRun /\ pc = "done"
    /\ outcome = Returned(UNDEFINED)
    /\ world.csv = <<RowOK, RowOK>>
    /\ results[1].stripe_status = <<"failed">>
    /\ results[1].stripe_error = <<"Invalid API Key provided">>
    /\ results[2].stripe_status = <<"failed">>
    /\ results[2].stripe_error = <<"Your card was declined.">>
    /\ successCount = 0 /\ failCount = 2

StderrKinds == {stderr[k].kind : k \in 1..Len(stderr)}
ExpectedFormat == IF call.options.format = <<"json">> THEN "json" ELSE "csv"

C12_CsvWitness ==
    /\ LiveRun /\ pc = "done"
    /\ call.options.format = <<"csv">>
    /\ Len(stdout) = 1 /\ stdout[1].format = "csv" /\ Len(stdout[1].rows) = 2
    /\ "progress" \in StderrKinds

\* what the profiles give for the connected account: that of the --platform
\* profile, else that of the default profile
ProfileConnected(w, options) ==
    IF loadProfiles(w).threw THEN UNDEFINED
    ELSE IF Truthy(options.platform)
    THEN getProfileConnectedAccount(loadProfiles(w).val, w.config, options.platform,
                                    detectEnvironment(options, w.config))
    ELSE IF Truthy(loadProfiles(w).val.defaultProfile)
    THEN getProfileConnectedAccount(loadProfiles(w).val, w.config,
                                    loadProfiles(w).val.defaultProfile,
                                    detectEnvironment(options, w.config))
    ELSE UNDEFINED

\* the account the claim names for the calls of a run
ClaimedTarget(w, options, platform) ==
    IF Truthy(options.connectedAccount) THEN options.connectedAccount
    ELSE IF Truthy(ProfileConnected(w, options)) THEN ProfileConnected(w, options)
    ELSE platform

CallsOfRow(k) == {j \in 1..Len(apiCalls) : apiCalls[j].row = k}

\* C19: every Stripe call of a run is made on one account: --connected-account
\* when given, else the connected account of the platform's or default profile,
\* else the platform account; the three calls of a row are in the order
\* customer, payment method, setup intent; an account given on the command line
\* is never replaced by one of a profile.
C19_CallsOnResolvedAccount ==
    (ImportCalled /\ pc \notin {"idle", "rejected"}) =>
        /\ Truthy(call.options.account) => platformAccount = call.options.account
        /\ Truthy(call.options.connectedAccount) =>
               connectedAccount = call.options.connectedAccount
        /\ Truthy(platformAccount)
        /\ {apiCalls[j].account : j \in 1..Len(apiCalls)}
               \subseteq {ClaimedTarget(world, call.options, platformAccount)}
        /\ \A k \in 1..Len(results) :
               results[k].stripe_status = <<"success">> =>
                   /\ Cardinality(CallsOfRow(k)) = 3
                   /\ results[k].stripe_platform_account = platformAccount

\* C19 witness: a row was imported on the connected account of the [vet] profile,
\* found through the default platform
C19_Witness ==
    /\ LiveRun /\ pc = "done"
    /\ Falsy(call.options.platform) /\ Falsy(call.options.connectedAccount)
    /\ successCount = 1
    /\ Len(apiCalls) = 3
    /\ \A j \in 1..3 : apiCalls[j].account = ConnProfile
    /\ platformAccount = AcctProfile

\* C19 witness of the command line winning: the profile names other accounts
C19_OptionWitness ==
    /\ LiveRun /\ pc = "done"
    /\ world.secrets = SecretsWithAccounts /\ world.config = ConfigVet
    /\ call.options.connectedAccount = ConnOption
    /\ successCount >= 1
    /\ \A j \in 1..Len(apiCalls) : apiCalls[j].account = ConnOption
    /\ platformAccount = AcctOption

\* the key resolves and a client is created from it (lines 341-344)
ClientCreated(w, options) ==
    /\ ~getStripeKey(w, options, CmdImport).threw
    /\ ~createStripeClient(getStripeKey(w, options, CmdImport).val).threw

NoPlatformAccount == Falsy(ResolveAccounts(world, call.options).platformAccount)
FileMissing == Truthy(call.options.file) /\ call.options.file \notin world.files
NoDataRows == world.csv = <<>> /\ ~world.csvUnreadable
StdinIsTerminal == Falsy(call.options.file) /\ world.stdinIsTTY

PlatformRequired ==
    Thrown(<<"Platform account ID is required. Use --account option or set account in profile.">>)
FileNotFound == Thrown(<<"CSV file not found: ">> \o call.options.file)
Contains(message, part) == \E i \in 1..Len(message) : message[i] = part
NoDataRaised ==
    /\ pc = "rejected" /\ outcome.threw
    /\ Contains(outcome.val, "No data found in CSV file")

\* C20 as stated: each of the three conditions alone decides the error of an ended
\* run: no platform account gives 'Platform account ID is required...', a file
\* that does not exist 'CSV file not found...', a CSV without rows an error
\* containing 'No data found in CSV file'; no Stripe call has been made.
C20_EachConditionAlone ==
    (ImportCalled /\ RunEnded) =>
        /\ NoPlatformAccount => (outcome = PlatformRequired /\ apiCalls = <<>>)
        /\ FileMissing => (outcome = FileNotFound /\ apiCalls = <<>>)
        /\ (NoDataRows /\ ~FileMissing) => (NoDataRaised /\ apiCalls = <<>>)

\* C20, with the order of the checks: once the key has given a client and stdin is
\* not a terminal, a missing platform account raises 'Platform account ID is
\* required...'; with a platform account, a file that does not exist raises
\* 'CSV file not found: <file>'; with the input there and readable, a CSV without
\* rows raises 'Import failed: No data found in CSV file'; each of the three
\* errors is raised in that case only, and no Stripe call has been made and
\* nothing is on stdout when the run is rejected this way.
C20_FailsFastInOrder ==
    (ImportCalled /\ RunEnded) =>
        /\ (ClientCreated(world, call.options) /\ ~StdinIsTerminal) =>
            /\ NoPlatformAccount => outcome = PlatformRequired
            /\ (~NoPlatformAccount /\ FileMissing) => outcome = FileNotFound
            /\ (~NoPlatformAccount /\ ~FileMissing /\ NoDataRows) =>
                   outcome = Thrown(<<"Import failed: ", "No data found in CSV file">>)
        /\ outcome = PlatformRequired => NoPlatformAccount
        /\ (outcome.threw /\ outcome.val[1] = "CSV file not found: ") => FileMissing
        /\ NoDataRaised => NoDataRows
        /\ (outcome \in {PlatformRequired, FileNotFound} \/ NoDataRaised) =>
            /\ pc = "rejected"
            /\ apiCalls = <<>> /\ inflight = {} /\ stdout = <<>>
            /\ results = <<>>

\* C20 witness: the account came from the profile and the file is not there
C20_Witness ==
    /\ pc = "rejected" /\ ImportCalled
    /\ ~NoPlatformAccount /\ FileMissing
    /\ outcome = FileNotFound
    /\ apiCalls = <<>>

\* C20 witness: a file that is not there and no platform account either
C20_NoAccountWitness ==
    /\ pc = "rejected" /\ ImportCalled
    /\ NoPlatformAccount /\ FileMissing
    /\ outcome = PlatformRequired
    /\ apiCalls = <<>>

\* C20 witness: the CSV was read and has no rows
C20_NoDataWitness ==
    /\ NoDataRaised /\ NoDataRows /\ ~NoPlatformAccount
    /\ stderr # <<>> /\ apiCalls = <<>>

-----------------------------------------------------------------------------
(* createStripeClient over keys of every shape *)

\* the longest key tried, in parts
MaxKeyParts == 3

\* the parts a key is written from; no two of them join into a prefix
KeyParts == {"sk_", "rk_", "pk_", "test_", "live_", "1234567890abcdef"}

\* createStripeClient(), createStripeClient(null), createStripeClient(''), and keys
ClientKeys == {UNDEFINED, NULL} \cup SeqsUpTo(KeyParts, MaxKeyParts)

InitClient ==
    /\ world = [secrets |-> [exists |-> FALSE, lines |-> <<>>]]
    /\ now = Today
    /\ call \in {[fn |-> "none", arg |-> k] : k \in ClientKeys}
    /\ outcome = Pending
    /\ ImportIdle

CreateStripeClient ==
    /\ call.fn = "none"
    /\ call' = [call EXCEPT !.fn = "createStripeClient"]
    /\ outcome' = createStripeClient(call.arg)
    /\ UNCHANGED <<exitCode, deleteVars, manager, searchVars, world, now>>
    /\ UNCHANGED importVars

NextClient == CreateStripeClient

SpecClient == InitClient /\ [][NextClient]_vars

KeyIsMissing(k) == k \in {UNDEFINED, NULL, EMPTY}
KeyHasPrefix(k) == ~KeyIsMissing(k) /\ k[1] \in {"sk_", "rk_"}

\* C18: createStripeClient returns a client exactly for the keys that start with
\* 'sk_' or 'rk_', whatever follows the prefix; a missing or empty key raises
\* 'Stripe secret key is required', every other key 'Invalid Stripe API key format'.
C18_ClientOnlyForSkOrRk ==
    call.fn = "createStripeClient" =>
        /\ KeyIsMissing(call.arg) => outcome = Thrown(<<"Stripe secret key is required">>)
        /\ (~KeyIsMissing(call.arg) /\ ~KeyHasPrefix(call.arg)) =>
               outcome = Thrown(<<"Invalid Stripe API key format">>)
        /\ KeyHasPrefix(call.arg) =>
               /\ ~outcome.threw
               /\ outcome.val.key = call.arg
        /\ ~outcome.threw => KeyHasPrefix(call.arg)

\* C18 witness: a client was created for the bare prefix 'rk_'
C18_Witness ==
    /\ call.fn = "createStripeClient"
    /\ call.arg = <<"rk_">>
    /\ ~outcome.threw

\* C18 witness: a publishable key was refused
C18_PublishableWitness ==
    /\ call.fn = "createStripeClient"
    /\ call.arg = <<"pk_", "test_", "1234567890abcdef">>
    /\ outcome = Thrown(<<"Invalid Stripe API key format">>)

-----------------------------------------------------------------------------
(* lib/commands/customer.js *)

LowerLetters == <<"a", "e", "l", "n", "o", "s", "y">>
UpperLetters == <<"A", "E", "L", "N", "O", "S", "Y">>
LetterIndex(letters, c) == CHOOSE j \in 1..Len(letters) : letters[j] = c
IsLetterOf(letters, c) == \E j \in 1..Len(letters) : letters[j] = c

\* String.prototype.toUpperCase / toLowerCase over the characters of an answer
toUpperCase(s) ==
    [i \in 1..Len(s) |->
        IF IsLetterOf(LowerLetters, s[i]) THEN UpperLetters[LetterIndex(LowerLetters, s[i])]
        ELSE s[i]]
toLowerCase(s) ==
    [i \in 1..Len(s) |->
        IF IsLetterOf(UpperLetters, s[i]) THEN LowerLetters[LetterIndex(UpperLetters, s[i])]
        ELSE s[i]]

\* String.prototype.trim
RECURSIVE trimStart(_)
trimStart(s) == IF s # <<>> /\ Head(s) = " " THEN trimStart(Tail(s)) ELSE s
RECURSIVE trimEnd(_)
trimEnd(s) == IF s # <<>> /\ s[Len(s)] = " " THEN trimEnd(SubSeq(s, 1, Len(s) - 1)) ELSE s
trim(s) == trimEnd(trimStart(s))

IsYes(lower) == lower = <<"y">> \/ lower = <<"y", "e", "s">>

\* the y/n prompt taking an empty answer for a yes
promptYesNo_EmptyIsYes(answer) ==
    toLowerCase(trim(answer)) = <<>> \/ IsYes(toLowerCase(trim(answer)))

\* promptYesNo: what the promise resolves to for an answer
promptYesNo(answer) == IsYes(toLowerCase(trim(answer)))

\* promptYesNoOrAll: 'yes' | 'no' | 'all'
promptYesNoOrAll(answer) ==
    IF toUpperCase(trim(answer)) = <<"A", "L", "L">> THEN "all"
    ELSE IF IsYes(toLowerCase(toUpperCase(trim(answer)))) THEN "yes"
    ELSE "no"

\* deleteAllRemaining never set
RemembersAll_Never(answer) == FALSE

\* deleteAllRemaining = true on 'all' (lines 207-208, 332-333)
RemembersAll(answer) == answer = "all"

\* isTestKey taking every secret or restricted key for a test key
isTestKey_AnyKey(secretKey) ==
    Truthy(secretKey) /\ (StartsWith(secretKey, "sk_") \/ StartsWith(secretKey, "rk_"))

\* isTestKey: the key starts with sk_test_ or rk_test_
isTestKey(secretKey) ==
    /\ Truthy(secretKey)
    /\ Len(secretKey) >= 2
    /\ secretKey[1] \in {"sk_", "rk_"}
    /\ secretKey[2] = "test_"

CmdDelete == <<"account.customer.delete">>

\* the connected account of the requests, once the profiles are loaded or not
RequestAccountFrom(loaded, w, options, given) ==
    IF Truthy(given) \/ loaded.threw THEN given
    ELSE IF Truthy(options.platform)
    THEN getProfileConnectedAccount(loaded.val, w.config, options.platform,
                                    detectEnvironment(options, w.config))
    ELSE IF Truthy(loaded.val.defaultProfile)
    THEN getProfileConnectedAccount(loaded.val, w.config, loaded.val.defaultProfile,
                                    detectEnvironment(options, w.config))
    ELSE given

\* options.connectedAccount || options.account, else that of the profile
RequestAccount(w, options) ==
    RequestAccountFrom(loadProfiles(w), w, options, Or(options.connectedAccount, options.account))

ClientAndAccount(secretKey, account) ==
    IF secretKey.threw THEN secretKey
    ELSE IF createStripeClient(secretKey.val).threw THEN createStripeClient(secretKey.val)
    ELSE Returned([stripe |-> createStripeClient(secretKey.val).val, account |-> account])

\* getStripeAndRequestOptions
getStripeAndRequestOptions(w, options) ==
    ClientAndAccount(getStripeKey(w, options, CmdDelete), RequestAccount(w, options))

\* deleteAllCustomers up to requestOptions (lines 266-293)
TestClientAndAccount(secretKey, account) ==
    IF secretKey.threw THEN secretKey
    ELSE IF ~isTestKey(secretKey.val)
    THEN Thrown(<<"account.customer.delete --all is only allowed with Stripe test keys">>)
    ELSE ClientAndAccount(secretKey, account)

\* parseMetadataKeyValue, for a value written as its parts around the first '='
parseMetadataKeyValue(raw) ==
    IF Falsy(raw)
    THEN Thrown(<<"--metadata requires key=value">>)
    ELSE IF ~(\E i \in 2..Len(raw) : raw[i] = "=") \/ raw[1] = "="
    THEN Thrown(<<"--metadata must be key=value">>)
    ELSE IF trim(<<raw[1]>>) = <<>>
    THEN Thrown(<<"--metadata key cannot be empty.">>)
    ELSE Returned([key |-> raw[1], value |-> raw[3]])

\* the checks of deleteCustomer on its id (lines 113-121)
CheckCustomerId(customerId) ==
    IF Falsy(customerId)
    THEN Thrown(<<"Customer ID is required.">>)
    ELSE IF ~StartsWith(trim(customerId), "cus_")
    THEN Thrown(<<"Invalid customer ID. Must start with cus_.">>)
    ELSE Returned(trim(customerId))

DeleteCall(api, id, account) == [api |-> api, id |-> id, account |-> account]

\* the errors Stripe answers a request with
ResourceMissing ==
    [type |-> <<"StripeInvalidRequestError">>, code |-> <<"resource_missing">>,
     message |-> <<"No such customer">>]
DeleteErrors(i) ==
    IF i % 2 = 1
    THEN {[type |-> <<"StripePermissionError">>, code |-> UNDEFINED,
           message |-> <<"Permission denied">>]}
    ELSE {[type |-> <<"StripeAPIError">>, code |-> <<"api_error">>, message |-> EMPTY]}

NotFound(id) == Thrown(<<"Customer not found: ">> \o id)

\* the catch of deleteCustomer around customers.del (lines 148-160)
DeleteRewrap(error, id) ==
    IF error.type = <<"StripeInvalidRequestError">> /\ error.code = <<"resource_missing">>
    THEN NotFound(id)
    ELSE IF error.type = <<"StripeAuthenticationError">>
    THEN Thrown(<<"Invalid Stripe API key. Please check your API key.">>)
    ELSE IF error.type = <<"StripePermissionError">>
    THEN Thrown(<<"Insufficient permissions. Your key may not have permission to delete customers.">>)
    ELSE Thrown(error.message)

\* error.message || String(error.code || error.type)
ErrorText(error) == Or(error.message, Or(error.code, error.type))

-----------------------------------------------------------------------------
(* The delete commands: one call in some world *)

\* the most customers an account holds
MaxCustomers == 3

CustomerId(i) == <<"cus_", RowDigit(i)>>
CustomerLists == {[i \in 1..n |-> [id |-> CustomerId(i)]] : n \in 0..MaxCustomers}

\* what is typed at a prompt
Answers ==
    {<<"y">>, <<" ", "Y", "e", "s", " ">>, <<"A", "L", "L">>, <<"a", "L", "l", " ">>,
     <<"n">>, <<>>}

TestRestricted == <<"rk_", "test_", "--key">>
TestSecret == <<"sk_", "test_", "--key">>
LiveRestricted == <<"rk_", "live_", "--key">>
LiveSecret == <<"sk_", "live_", "--key">>

\* [vet] with a restricted test key and a connected account
SecretsTestKey ==
    [exists |-> TRUE,
     lines |-> <<SectionLine(VET), KVLine("restricted_key", <<"rk_", "test_", "vet">>),
                 KVLine("connected_account", ConnProfile)>>]

\* config.yml asking for a secret key for the delete command
ConfigSecretDelete ==
    [default_platform |-> UNDEFINED, commands |-> [c \in {CmdDelete} |-> <<"secret">>],
     platform |-> NoPlatforms]

DeleteFiles ==
    {[secrets |-> NoSecrets, config |-> NoConfig],
     [secrets |-> NoSecrets, config |-> ConfigSecretDelete],
     [secrets |-> SecretsWithAccounts, config |-> ConfigVet],
     [secrets |-> SecretsTestKey, config |-> ConfigVet]}

DeleteWorlds ==
    {[secrets |-> f.secrets, config |-> f.config, env |-> [STRIPE_SECRET_KEY |-> UNDEFINED],
      customers |-> cs] : f \in DeleteFiles, cs \in CustomerLists}

\* how the command line names the key, the account, the customer and the metadata
DeleteSetups ==
    {[key |-> TestRestricted, connectedAccount |-> ConnOption, format |-> UNDEFINED,
      delete |-> CustomerId(1), metadata |-> <<"import_date", "=", "2026-01-30">>],
     [key |-> TestSecret, connectedAccount |-> UNDEFINED, format |-> <<"json">>,
      delete |-> <<" ", "cus_", "2", " ">>, metadata |-> <<"import_date", "=", "2026-01-30">>],
     [key |-> LiveRestricted, connectedAccount |-> UNDEFINED, format |-> <<"json">>,
      delete |-> CustomerId(3), metadata |-> <<"=", "2026-01-30">>],
     [key |-> LiveSecret, connectedAccount |-> UNDEFINED, format |-> UNDEFINED,
      delete |-> <<"prod_", "1">>, metadata |-> <<"import_date", "=", "2026-01-30">>],
     [key |-> <<"pk_", "test_", "--key">>, connectedAccount |-> UNDEFINED, format |-> UNDEFINED,
      delete |-> CustomerId(1), metadata |-> UNDEFINED],
     [key |-> UNDEFINED, connectedAccount |-> UNDEFINED, format |-> UNDEFINED,
      delete |-> UNDEFINED, metadata |-> <<"import_date", "=", "2026-01-30">>]}

DeleteOptions ==
    {[key |-> u.key, platform |-> UNDEFINED, environment |-> UNDEFINED, test |-> FALSE,
      account |-> UNDEFINED, connectedAccount |-> u.connectedAccount, format |-> u.format,
      delete |-> u.delete, metadata |-> u.metadata] : u \in DeleteSetups}

InitDelete ==
    /\ world \in DeleteWorlds
    /\ now = Today
    /\ call = NoCall
    /\ outcome = Pending
    /\ ImportIdle

\* what no step of the delete commands touches
deleteUnused == <<exitCode, manager, searchVars, world, now, platformAccount, cards, originalRows, validCards, results,
                  successCount, failCount, processedCount, created, inflight>>

\* the first request of a command is sent, or the command throws before it
Begin(fn, options, checked, resolved, api, id, lines) ==
    /\ call' = [fn |-> fn, options |-> options]
    /\ IF checked.threw \/ resolved.threw
       THEN /\ pc' = "rejected"
            /\ outcome' = IF checked.threw THEN checked ELSE resolved
            /\ UNCHANGED <<stripe, connectedAccount, apiCalls, stderr>>
       ELSE /\ pc' = api
            /\ outcome' = Pending
            /\ stripe' = resolved.val.stripe
            /\ connectedAccount' = resolved.val.account
            /\ apiCalls' = <<DeleteCall(api, id, resolved.val.account)>>
            /\ stderr' = lines
    /\ UNCHANGED <<idx, errors, stdout>>
    /\ UNCHANGED deleteVars
    /\ UNCHANGED deleteUnused

\* deleteCustomer up to customers.retrieve (lines 112-126)
DeleteCustomerStart ==
    /\ pc = "idle"
    /\ \E options \in DeleteOptions :
        Begin("deleteCustomer", options, CheckCustomerId(options.delete),
              getStripeAndRequestOptions(world, options), "customers.retrieve",
              trim(options.delete), <<>>)

\* deleteCustomersByMetadata up to the first customers.search (lines 168-181)
DeleteByMetadataStart ==
    /\ pc = "idle"
    /\ \E options \in DeleteOptions :
        Begin("deleteCustomersByMetadata", options, parseMetadataKeyValue(options.metadata),
              getStripeAndRequestOptions(world, options), "customers.search", UNDEFINED,
              <<Line("searching", <<>>)>>)

\* deleteAllCustomers up to the first customers.list (lines 265-299)
DeleteAllStart ==
    /\ pc = "idle"
    /\ \E options \in DeleteOptions :
        Begin("deleteAllCustomers", options, Returned(UNDEFINED),
              TestClientAndAccount(getStripeKey(world, options, CmdDelete),
                                   RequestAccount(world, options)),
              "customers.list", UNDEFINED, <<Line("listing", <<>>)>>)

HasCustomer(w, id) == \E i \in 1..Len(w.customers) : w.customers[i].id = id

\* customers.retrieve answered: the prompt is shown, or the customer is not there
\* (lines 126-139)
CustomerRetrieved ==
    /\ pc = "customers.retrieve"
    /\ IF HasCustomer(world, apiCalls[1].id)
       THEN /\ pc' = "confirm"
            /\ outcome' = outcome
       ELSE /\ pc' = "rejected"
            /\ outcome' = NotFound(apiCalls[1].id)
    /\ UNCHANGED <<call, stripe, connectedAccount, apiCalls, idx, errors, stdout, stderr>>
    /\ UNCHANGED deleteVars
    /\ UNCHANGED deleteUnused

\* customers.retrieve rejected with another error: thrown on as it is (line 138)
CustomerRetrieveFailed ==
    /\ pc = "customers.retrieve"
    /\ \E error \in DeleteErrors(1) :
        outcome' = Thrown(error.message)
    /\ pc' = "rejected"
    /\ UNCHANGED <<call, stripe, connectedAccount, apiCalls, idx, errors, stdout, stderr>>
    /\ UNCHANGED deleteVars
    /\ UNCHANGED deleteUnused

\* the y/n prompt of deleteCustomer is answered (lines 129-133, 141)
CustomerConfirmed ==
    /\ pc = "confirm"
    /\ \E answer \in Answers :
        /\ prompts' = Append(prompts, [id |-> apiCalls[1].id, answer |-> answer])
        /\ IF promptYesNo(answer)
           THEN /\ pc' = "customers.del"
                /\ outcome' = outcome
                /\ apiCalls' = Append(apiCalls,
                       DeleteCall("customers.del", apiCalls[1].id, connectedAccount))
                /\ stderr' = stderr
           ELSE /\ pc' = "done"
                /\ outcome' = Returned(UNDEFINED)
                /\ apiCalls' = apiCalls
                /\ stderr' = Append(stderr, Line("skipped", apiCalls[1].id))
    /\ UNCHANGED <<call, stripe, connectedAccount, idx, errors, stdout>>
    /\ UNCHANGED <<allCustomers, deleteAllRemaining, deletedCount, failedCount>>
    /\ UNCHANGED deleteUnused

\* customers.del of deleteCustomer answered (lines 141-150)
CustomerDeleted ==
    /\ pc = "customers.del"
    /\ pc' = "done"
    /\ outcome' = Returned(UNDEFINED)
    /\ stdout' = <<Line("deleted", apiCalls[1].id)>>
                 \o (IF call.options.format = <<"json">>
                     THEN <<Line("json", apiCalls[1].id)>> ELSE <<>>)
    /\ UNCHANGED <<call, stripe, connectedAccount, apiCalls, idx, errors, stderr>>
    /\ UNCHANGED deleteVars
    /\ UNCHANGED deleteUnused

\* customers.del of deleteCustomer rejected (lines 150-161)
CustomerDeleteFailed ==
    /\ pc = "customers.del"
    /\ \E error \in DeleteErrors(1) \cup DeleteErrors(2) \cup {ResourceMissing} :
        outcome' = DeleteRewrap(error, apiCalls[1].id)
    /\ pc' = "rejected"
    /\ UNCHANGED <<call, stripe, connectedAccount, apiCalls, idx, errors, stdout, stderr>>
    /\ UNCHANGED deleteVars
    /\ UNCHANGED deleteUnused

\* the search or the listing is complete, all pages read (lines 176-198, 299-320)
CustomersFound ==
    /\ pc \in {"customers.search", "customers.list"}
    /\ allCustomers' = world.customers
    /\ IF Len(world.customers) = 0
       THEN /\ pc' = "done"
            /\ outcome' = Returned(UNDEFINED)
            /\ idx' = idx
            /\ stderr' = Append(stderr, Line("none-found", <<>>))
            /\ stdout' = IF call.options.format = <<"json">>
                         THEN <<[deleted |-> 0, failed |-> 0, total |-> 0]>> ELSE <<>>
       ELSE /\ pc' = "loop"
            /\ outcome' = outcome
            /\ idx' = 1
            /\ stderr' = Append(stderr, Line("found", <<>>))
            /\ stdout' = stdout
    /\ UNCHANGED <<call, stripe, connectedAccount, apiCalls, errors>>
    /\ UNCHANGED <<deleteAllRemaining, prompts, deletedCount, failedCount>>
    /\ UNCHANGED deleteUnused

\* the search or the listing rejected: nothing catches it
CustomersListFailed ==
    /\ pc \in {"customers.search", "customers.list"}
    /\ \E error \in DeleteErrors(1) :
        outcome' = Thrown(error.message)
    /\ pc' = "rejected"
    /\ UNCHANGED <<call, stripe, connectedAccount, apiCalls, idx, errors, stdout, stderr>>
    /\ UNCHANGED deleteVars
    /\ UNCHANGED deleteUnused

JsonSilent(options, line) == IF options.format = <<"json">> THEN <<>> ELSE <<line>>

\* let shouldDelete = ...; the request of a customer is sent or the customer skipped
Decide(answer, id) ==
    /\ deleteAllRemaining' = (deleteAllRemaining \/ RemembersAll(answer))
    /\ IF answer \in {"all", "yes"}
       THEN /\ pc' = "deleting"
            /\ idx' = idx
            /\ apiCalls' = Append(apiCalls, DeleteCall("customers.del", id, connectedAccount))
            /\ stderr' = stderr \o (IF answer = "all"
                                    THEN JsonSilent(call.options, Line("all-remaining", <<>>))
                                    ELSE <<>>)
       ELSE /\ pc' = "loop"
            /\ idx' = idx + 1
            /\ apiCalls' = apiCalls
            /\ stderr' = stderr \o JsonSilent(call.options, Line("skipped", id))

\* the y/n/ALL prompt of a customer is answered (lines 202-222, 327-347)
PromptAnswered ==
    /\ pc = "loop"
    /\ idx <= Len(allCustomers)
    /\ ~deleteAllRemaining
    /\ \E answer \in Answers :
        /\ prompts' = Append(prompts, [id |-> allCustomers[idx].id, answer |-> answer])
        /\ Decide(promptYesNoOrAll(answer), allCustomers[idx].id)
    /\ UNCHANGED <<call, outcome, stripe, connectedAccount, errors, stdout>>
    /\ UNCHANGED <<allCustomers, deletedCount, failedCount>>
    /\ UNCHANGED deleteUnused

\* shouldDelete = deleteAllRemaining: no prompt (lines 203, 223)
DeleteRemaining ==
    /\ pc = "loop"
    /\ idx <= Len(allCustomers)
    /\ deleteAllRemaining
    /\ pc' = "deleting"
    /\ apiCalls' = Append(apiCalls,
           DeleteCall("customers.del", allCustomers[idx].id, connectedAccount))
    /\ UNCHANGED <<call, outcome, stripe, connectedAccount, idx, errors, stdout, stderr>>
    /\ UNCHANGED deleteVars
    /\ UNCHANGED deleteUnused

\* customers.del answered in the loop (lines 223-228)
LoopDeleted ==
    /\ pc = "deleting"
    /\ pc' = "loop"
    /\ idx' = idx + 1
    /\ deletedCount' = deletedCount + 1
    /\ stderr' = stderr \o JsonSilent(call.options, Line("deleted", allCustomers[idx].id))
    /\ UNCHANGED <<call, outcome, stripe, connectedAccount, apiCalls, errors, stdout>>
    /\ UNCHANGED <<allCustomers, deleteAllRemaining, prompts, failedCount>>
    /\ UNCHANGED deleteUnused

\* customers.del rejected in the loop: counted, and the loop goes on (lines 229-234)
LoopDeleteFailed ==
    /\ pc = "deleting"
    /\ \E error \in DeleteErrors(idx) :
        /\ errors' = Append(errors, [id |-> allCustomers[idx].id, error |-> ErrorText(error)])
        /\ stderr' = Append(stderr, Line("failed", ErrorText(error)))
    /\ pc' = "loop"
    /\ idx' = idx + 1
    /\ failedCount' = failedCount + 1
    /\ UNCHANGED <<call, outcome, stripe, connectedAccount, apiCalls, stdout>>
    /\ UNCHANGED <<allCustomers, deleteAllRemaining, prompts, deletedCount>>
    /\ UNCHANGED deleteUnused

\* after the loop (lines 237-250)
DeleteFinish ==
    /\ pc = "loop"
    /\ idx > Len(allCustomers)
    /\ pc' = "done"
    /\ outcome' = Returned(UNDEFINED)
    /\ stderr' = stderr \o <<Line("summary-deleted", <<>>)>>
                 \o (IF failedCount > 0 THEN <<Line("summary-failed", <<>>)>> ELSE <<>>)
    /\ stdout' = IF call.options.format = <<"json">>
                 THEN <<[deleted |-> deletedCount, failed |-> failedCount,
                         total |-> Len(allCustomers)]>>
                 ELSE <<>>
    /\ UNCHANGED <<call, stripe, connectedAccount, apiCalls, idx, errors>>
    /\ UNCHANGED deleteVars
    /\ UNCHANGED deleteUnused

NextDelete ==
    \/ DeleteCustomerStart
    \/ DeleteByMetadataStart
    \/ DeleteAllStart
    \/ CustomerRetrieved
    \/ CustomerRetrieveFailed
    \/ CustomerConfirmed
    \/ CustomerDeleted
    \/ CustomerDeleteFailed
    \/ CustomersFound
    \/ CustomersListFailed
    \/ PromptAnswered
    \/ DeleteRemaining
    \/ LoopDeleted
    \/ LoopDeleteFailed
    \/ DeleteFinish

SpecDelete == InitDelete /\ [][NextDelete]_vars

-----------------------------------------------------------------------------
(* The delete commands: confirmation *)

DeleteCalled == call.fn \in {"deleteCustomer", "deleteCustomersByMetadata", "deleteAllCustomers"}
ManyCalled == call.fn \in {"deleteCustomersByMetadata", "deleteAllCustomers"}

\* the answers that say yes, and those that say ALL, as typed
YesAnswers == {<<"y">>, <<" ", "Y", "e", "s", " ">>}
AllAnswers == {<<"A", "L", "L">>, <<"a", "L", "l", " ">>}

DelAttempted(id) ==
    \E j \in 1..Len(apiCalls) : apiCalls[j].api = "customers.del" /\ apiCalls[j].id = id
PositionOf(id) == CHOOSE k \in 1..Len(allCustomers) : allCustomers[k].id = id
DelIds == {apiCalls[j].id : j \in {i \in 1..Len(apiCalls) : apiCalls[i].api = "customers.del"}}

\* C13: customers.del is called for a customer only if the prompt for that customer
\* was answered y/yes or, in the two commands over many customers, the prompt for
\* that customer or for a customer before it was answered ALL; a customer whose
\* prompt got any other answer, the empty one included, has no customers.del call.
C13_NoDeleteWithoutConfirmation ==
    DeleteCalled =>
        /\ \A j \in 1..Len(apiCalls) :
             apiCalls[j].api = "customers.del" =>
                \/ \E p \in 1..Len(prompts) :
                      prompts[p].id = apiCalls[j].id /\ prompts[p].answer \in YesAnswers
                \/ /\ ManyCalled
                   /\ \E p \in 1..Len(prompts) :
                         /\ prompts[p].answer \in AllAnswers
                         /\ PositionOf(prompts[p].id) <= PositionOf(apiCalls[j].id)
        /\ \A p \in 1..Len(prompts) :
             (prompts[p].answer \notin YesAnswers
              /\ (ManyCalled => prompts[p].answer \notin AllAnswers)) =>
                 ~DelAttempted(prompts[p].id)

\* C13 witness: three customers, answered with nothing, yes and n: one is deleted
C13_Witness ==
    /\ ManyCalled /\ pc = "done"
    /\ Len(prompts) = 3
    /\ prompts[1].answer = <<>>
    /\ prompts[2].answer = <<" ", "Y", "e", "s", " ">>
    /\ prompts[3].answer = <<"n">>
    /\ DelIds = {CustomerId(2)}
    /\ deletedCount = 1

\* C13 witness: deleteCustomer asked once, got ALL for an answer and deleted nothing
C13_SingleWitness ==
    /\ call.fn = "deleteCustomer" /\ pc = "done"
    /\ Len(prompts) = 1
    /\ prompts[1].answer = <<"A", "L", "L">>
    /\ DelIds = {}

\* C13 witness: deleteCustomer deleted after a y
C13_SingleYesWitness ==
    /\ call.fn = "deleteCustomer" /\ pc = "done"
    /\ prompts = <<[id |-> CustomerId(2), answer |-> <<"y">>]>>
    /\ DelIds = {CustomerId(2)}

\* C14: in the two commands over many customers, a prompt answered ALL in any
\* letter case is the last prompt of the run; a delete is attempted for the
\* customer of that prompt and for every customer after it as the loop reaches
\* them, all of them once the run has ended, which it does by returning; the
\* customers answered with a no before it have no customers.del call.
C14_AllDeletesTheRest ==
    ManyCalled =>
        \A p \in 1..Len(prompts) :
            prompts[p].answer \in AllAnswers =>
                /\ p = Len(prompts)
                /\ deleteAllRemaining
                /\ pc \in {"loop", "deleting", "done"}
                /\ \A i \in PositionOf(prompts[p].id)..Len(allCustomers) :
                      (i < idx \/ (i = idx /\ pc = "deleting") \/ pc = "done") =>
                          DelAttempted(allCustomers[i].id)
                /\ pc = "done" => (idx > Len(allCustomers) /\ outcome = Returned(UNDEFINED))
                /\ \A q \in 1..(p - 1) :
                      prompts[q].answer \notin YesAnswers => ~DelAttempted(prompts[q].id)
                /\ Cardinality(DelIds) + Cardinality({q \in 1..(p - 1) :
                                                       prompts[q].answer \notin YesAnswers})
                       = (IF pc = "done" THEN Len(allCustomers)
                          ELSE IF pc = "deleting" THEN idx ELSE idx - 1)

\* C14 witness: n for the first customer, then ALL in mixed case: the second and
\* third are attempted without a prompt, though one delete failed
C14_Witness ==
    /\ ManyCalled /\ pc = "done"
    /\ Len(allCustomers) = 3
    /\ Len(prompts) = 2
    /\ prompts[1].answer = <<"n">>
    /\ prompts[2].answer = <<"a", "L", "l", " ">>
    /\ DelIds = {CustomerId(2), CustomerId(3)}
    /\ failedCount = 1 /\ deletedCount = 1

\* the key has the prefix of a test key
TestPrefix(k) ==
    Len(k) >= 2 /\ <<k[1], k[2]>> \in {<<"sk_", "test_">>, <<"rk_", "test_">>}

ResolvedDeleteKey == getStripeKey(world, call.options, CmdDelete)

\* C15: deleteAllCustomers with a key that does not resolve, or that resolves to a
\* key not starting with sk_test_ or rk_test_, throws, with no client created
\* and no Stripe call made; every call it makes is made with a test key.
C15_DeleteAllTestKeysOnly ==
    call.fn = "deleteAllCustomers" =>
        /\ (ResolvedDeleteKey.threw \/ ~TestPrefix(ResolvedDeleteKey.val)) =>
              /\ pc = "rejected"
              /\ outcome.threw
              /\ apiCalls = <<>>
              /\ stripe = NULL
        /\ apiCalls # <<>> => TestPrefix(stripe.key)

\* C15 witness: a live secret key, which the command's key type admits, is refused
C15_Witness ==
    /\ call.fn = "deleteAllCustomers"
    /\ call.options.key = LiveSecret
    /\ ~ResolvedDeleteKey.threw
    /\ outcome = Thrown(<<"account.customer.delete --all is only allowed with Stripe test keys">>)
    /\ pc = "rejected" /\ apiCalls = <<>>

\* C15 witness: the test key of the default profile deleted a customer
C15_TestKeyWitness ==
    /\ call.fn = "deleteAllCustomers" /\ pc = "done"
    /\ Falsy(call.options.key)
    /\ deletedCount >= 1

-----------------------------------------------------------------------------
(* lib/commands/account.js: listAccounts and searchAccounts *)

\* the catch taken to drop the message of an error it does not know
AccountRewrap_DropsMessage(prefix, error) ==
    IF error.type = <<"StripeAuthenticationError">>
    THEN Thrown(<<"Invalid Stripe API key. Please check your API key.">>)
    ELSE IF error.type = <<"StripePermissionError">>
    THEN Thrown(<<"Insufficient permissions. Make sure your API key has the required permissions.">>)
    ELSE IF error.type = <<"StripeAPIError">>
    THEN Thrown(<<"Stripe API error: ">> \o error.message)
    ELSE Thrown(<<prefix>>)

\* the catch of listAccounts (lines 470-480) and of searchAccounts (lines 617-627)
AccountRewrap(prefix, error) ==
    IF error.type = <<"StripeAuthenticationError">>
    THEN Thrown(<<"Invalid Stripe API key. Please check your API key.">>)
    ELSE IF error.type = <<"StripePermissionError">>
    THEN Thrown(<<"Insufficient permissions. Make sure your API key has the required permissions.">>)
    ELSE IF error.type = <<"StripeAPIError">>
    THEN Thrown(<<"Stripe API error: ">> \o error.message)
    ELSE Thrown(<<prefix>> \o error.message)

FailPrefix(fn) ==
    IF fn = "listAccounts" THEN "Failed to fetch accounts: " ELSE "Failed to search accounts: "

\* the errors stripe.accounts.list is rejected with
AccountErrors ==
    {[type |-> <<"StripeAuthenticationError">>, message |-> <<"Invalid API key">>],
     [type |-> <<"StripePermissionError">>, message |-> <<"Insufficient permissions">>],
     [type |-> <<"StripeAPIError">>, message |-> <<"API error">>],
     [type |-> <<"StripeConnectionError">>, message |-> <<"connect ETIMEDOUT">>],
     [type |-> UNDEFINED, message |-> <<"Network error">>]}

\* what JavaScript itself throws inside the try of searchAccounts
TypeErrorOfTerm ==
    [type |-> UNDEFINED,
     message |-> <<"Cannot read properties of undefined (reading 'toLowerCase')">>]
SyntaxErrorOfPattern ==
    [type |-> UNDEFINED, message |-> <<"Invalid regular expression">>]

\* field.includes(searchTerm)
IsSubstring(t, f) == \E i \in 0..(Len(f) - Len(t)) : SubSeq(f, i + 1, i + Len(t)) = t

\* new RegExp('^' + pattern + '$').test(field), '*' standing for '.*'
RECURSIVE WildMatch(_, _)
WildMatch(p, f) ==
    IF p = <<>> THEN f = <<>>
    ELSE IF Head(p) = "*"
    THEN WildMatch(Tail(p), f) \/ (f # <<>> /\ WildMatch(p, Tail(f)))
    ELSE f # <<>> /\ Head(p) = Head(f) /\ WildMatch(Tail(p), Tail(f))

HasChar(s, c) == \E i \in 1..Len(s) : s[i] = c

\* the fields of an account that are searched, in lower case
SearchableFields(account) ==
    {toLowerCase(f) : f \in {g \in {account.id, account.email} : Truthy(g)}}

\* the filter of searchAccounts (lines 520-542)
Matches(account, searchTerm) ==
    IF HasChar(searchTerm, "*")
    THEN \E f \in SearchableFields(account) : WildMatch(searchTerm, f)
    ELSE \E f \in SearchableFields(account) : IsSubstring(searchTerm, f)

RECURSIVE Filter(_, _)
Filter(accounts, searchTerm) ==
    IF accounts = <<>> THEN <<>>
    ELSE (IF Matches(Head(accounts), searchTerm) THEN <<Head(accounts)>> ELSE <<>>)
         \o Filter(Tail(accounts), searchTerm)

\* what the try of searchAccounts does with the accounts it has read: an error
\* thrown in it, or the line it prints
SearchOutcome(accounts, options) ==
    IF accounts = <<>> THEN Returned(Line("none", <<>>))
    ELSE IF options.searchTerm = UNDEFINED THEN Thrown(TypeErrorOfTerm)
    ELSE IF HasChar(options.searchTerm, "*") /\ HasChar(options.searchTerm, "(")
    THEN Thrown(SyntaxErrorOfPattern)
    ELSE IF Filter(accounts, toLowerCase(options.searchTerm)) = <<>>
    THEN Returned(Line("no-match", <<>>))
    ELSE Returned([kind |-> IF options.format = <<"json">> THEN "json" ELSE "table",
                   text |-> Filter(accounts, toLowerCase(options.searchTerm))])

\* what the try of listAccounts prints
ListOutcome(accounts, options) ==
    IF accounts = <<>> THEN Returned(Line("none", <<>>))
    ELSE Returned([kind |-> IF options.format = <<"json">> THEN "json" ELSE "table",
                   text |-> accounts])

-----------------------------------------------------------------------------
(* Account listing and search: one call in some world *)

\* the most accounts the platform has
MaxAccounts == 3

AccountSal == [id |-> <<"a", "c", "c", "t", "_", "1">>, email |-> <<"S", "a", "l">>]
AccountLeo == [id |-> <<"a", "c", "c", "t", "_", "2">>, email |-> UNDEFINED]
AccountMia == [id |-> <<"a", "c", "c", "t", "_", "3">>, email |-> <<"M", "i", "a">>]

\* the accounts of a platform, in the order Stripe lists them: no id twice
AccountLists ==
    {q \in SeqsUpTo({AccountSal, AccountLeo, AccountMia}, MaxAccounts) :
        \A i, j \in 1..Len(q) : i # j => q[i].id # q[j].id}

\* the limit that listAccounts and searchAccounts ask for
ListLimit == 50
SearchLimit == 100

\* the most accounts Stripe puts into one page, the limit of the request permitting
PageCaps == {1, 2, SearchLimit}

AccountWorlds ==
    {[secrets |-> NoSecrets, config |-> NoConfig, env |-> [STRIPE_SECRET_KEY |-> UNDEFINED],
      accounts |-> a, pageCap |-> c] : a \in AccountLists, c \in PageCaps}

SearchTerms ==
    {UNDEFINED, <<"S", "A">>, <<"*", "_", "2">>, <<"l", "e", "o">>, <<"(", "*">>, <<>>}

AccountOptions ==
    {[key |-> k, platform |-> UNDEFINED, environment |-> UNDEFINED, test |-> FALSE,
      format |-> f, searchTerm |-> t] :
        k \in {TestRestricted, UNDEFINED, <<"pk_", "test_", "--key">>},
        f \in {<<"table">>, <<"json">>}, t \in SearchTerms}

\* the params of stripe.accounts.list: starting_after only when there is a cursor
ListRequest(limit, cursor) ==
    [api |-> "accounts.list", limit |-> limit,
     starting_after |-> IF Truthy(cursor) THEN cursor ELSE UNDEFINED]

\* Stripe's side of accounts.list: the accounts after the cursor, as many as the
\* limit and the page allow, and whether more accounts follow them
IndexOfId(accounts, id) == CHOOSE i \in 1..Len(accounts) : accounts[i].id = id
AfterCursor(accounts, cursor) ==
    IF cursor = UNDEFINED THEN accounts
    ELSE SubSeq(accounts, IndexOfId(accounts, cursor) + 1, Len(accounts))
PageSize(rest, limit, cap) ==
    IF Len(rest) <= limit /\ Len(rest) <= cap THEN Len(rest)
    ELSE IF limit <= cap THEN limit ELSE cap
PageOf(rest, size) == [data |-> SubSeq(rest, 1, size), has_more |-> size < Len(rest)]
ServerPage(accounts, cap, request) ==
    PageOf(AfterCursor(accounts, request.starting_after),
           PageSize(AfterCursor(accounts, request.starting_after), request.limit, cap))

\* lines 507-511 with the first account of the page as the cursor
NextCursor_FirstOfPage(page, cursor) ==
    IF page.has_more /\ Len(page.data) > 0 THEN page.data[1].id ELSE cursor

\* lines 507-511: the id of the last account of a page that has more after it
NextCursor(page, cursor) ==
    IF page.has_more /\ Len(page.data) > 0 THEN page.data[Len(page.data)].id ELSE cursor

InitAccounts ==
    /\ world \in AccountWorlds
    /\ now = Today
    /\ call = NoCall
    /\ outcome = Pending
    /\ ImportIdle

accountsUnused == <<exitCode, manager, world, now, platformAccount, connectedAccount, cards, originalRows, idx,
                    validCards, results, successCount, failCount, processedCount, created,
                    inflight, stderr>>

\* the key and the client, outside the try; then the first accounts.list
AccountsStartWith(fn, options, secretKey, limit) ==
    /\ call' = [fn |-> fn, options |-> options]
    /\ IF secretKey.threw \/ createStripeClient(secretKey.val).threw
       THEN /\ pc' = "rejected"
            /\ outcome' = IF secretKey.threw THEN secretKey
                          ELSE createStripeClient(secretKey.val)
            /\ UNCHANGED <<stripe, apiCalls, stdout>>
       ELSE /\ pc' = "accounts.list"
            /\ outcome' = Pending
            /\ stripe' = createStripeClient(secretKey.val).val
            /\ apiCalls' = <<ListRequest(limit, NULL)>>
            /\ stdout' = <<Line("fetching", <<>>)>>
    /\ UNCHANGED errors
    /\ UNCHANGED searchVars
    /\ UNCHANGED deleteVars
    /\ UNCHANGED accountsUnused

\* listAccounts up to stripe.accounts.list (lines 395-404)
ListAccountsStart ==
    /\ pc = "idle"
    /\ \E options \in {o \in AccountOptions : o.searchTerm = UNDEFINED} :
        AccountsStartWith("listAccounts", options, getStripeKey(world, options, UNDEFINED),
                          ListLimit)

\* searchAccounts up to the first stripe.accounts.list (lines 487-505)
SearchAccountsStart ==
    /\ pc = "idle"
    /\ \E options \in AccountOptions :
        AccountsStartWith("searchAccounts", options, getStripeKey(world, options, UNDEFINED),
                          SearchLimit)

\* the rest of the try, with what it printed or the error caught at its end
AccountsEnd(fn, result) ==
    /\ pc' = IF result.threw THEN "rejected" ELSE "done"
    /\ outcome' = IF result.threw THEN AccountRewrap(FailPrefix(fn), result.val)
                  ELSE Returned(UNDEFINED)
    /\ errors' = IF result.threw THEN <<result.val>> ELSE errors
    /\ stdout' = IF result.threw THEN stdout ELSE Append(stdout, result.val)

\* one turn of the loop of searchAccounts on a page that has more after it: the
\* page is added, the cursor moves, the next request is sent (lines 498-512)
PageRead(page) ==
    /\ page.has_more
    /\ pages' = Append(pages, page)
    /\ allAccounts' = allAccounts \o page.data
    /\ startingAfter' = NextCursor(page, startingAfter)
    /\ apiCalls' = Append(apiCalls, ListRequest(SearchLimit, NextCursor(page, startingAfter)))

AccountsPage ==
    /\ pc = "accounts.list"
    /\ call.fn = "searchAccounts"
    /\ PageRead(ServerPage(world.accounts, world.pageCap, apiCalls[Len(apiCalls)]))
    /\ UNCHANGED <<call, outcome, pc, stripe, errors, stdout>>
    /\ UNCHANGED deleteVars
    /\ UNCHANGED accountsUnused

\* the answer that ends the reading: the only one of listAccounts, the page
\* without has_more of searchAccounts; then the rest of the try
LastPageRead(page) ==
    /\ call.fn = "searchAccounts" => ~page.has_more
    /\ pages' = Append(pages, page)
    /\ IF call.fn = "listAccounts"
       THEN /\ UNCHANGED <<allAccounts, startingAfter>>
            /\ AccountsEnd(call.fn, ListOutcome(page.data, call.options))
       ELSE /\ allAccounts' = allAccounts \o page.data
            /\ startingAfter' = NextCursor(page, startingAfter)
            /\ AccountsEnd(call.fn, SearchOutcome(allAccounts \o page.data, call.options))

\* the accounts are read (lines 402-468, 505-615)
AccountsListed ==
    /\ pc = "accounts.list"
    /\ LastPageRead(ServerPage(world.accounts, world.pageCap, apiCalls[Len(apiCalls)]))
    /\ UNCHANGED <<call, stripe, apiCalls>>
    /\ UNCHANGED deleteVars
    /\ UNCHANGED accountsUnused

\* stripe.accounts.list is rejected
AccountsListFailed ==
    /\ pc = "accounts.list"
    /\ \E error \in AccountErrors : AccountsEnd(call.fn, Thrown(error))
    /\ UNCHANGED <<call, stripe, apiCalls>>
    /\ UNCHANGED searchVars
    /\ UNCHANGED deleteVars
    /\ UNCHANGED accountsUnused

NextAccounts ==
    \/ ListAccountsStart
    \/ SearchAccountsStart
    \/ AccountsPage
    \/ AccountsListed
    \/ AccountsListFailed

SpecAccounts == InitAccounts /\ [][NextAccounts]_vars

AccountsCalled == call.fn \in {"listAccounts", "searchAccounts"}

\* the message of an error is found, whole and in order, in the message raised
MessageKept(message, raised) ==
    \E i \in 0..(Len(raised) - Len(message)) :
        SubSeq(raised, i + 1, i + Len(message)) = message

\* C16: an error caught in listAccounts or searchAccounts is raised again: with
\* type StripeAuthenticationError as 'Invalid Stripe API key. Please check your API
\* key.', StripePermissionError as 'Insufficient permissions. Make sure your API key
\* has the required permissions.', StripeAPIError as 'Stripe API error: <message>',
\* and any other error with its message kept in the new one; the call never ends
\* normally after an error, and an error of the key or the client is raised as it is.
C16_ErrorsRewrapped ==
    AccountsCalled =>
        /\ errors # <<>> =>
            /\ pc = "rejected" /\ outcome.threw
            /\ errors[1].type = <<"StripeAuthenticationError">> =>
                   outcome.val = <<"Invalid Stripe API key. Please check your API key.">>
            /\ errors[1].type = <<"StripePermissionError">> =>
                   outcome.val = <<"Insufficient permissions. Make sure your API key has the required permissions.">>
            /\ errors[1].type = <<"StripeAPIError">> =>
                   outcome.val = <<"Stripe API error: ">> \o errors[1].message
            /\ errors[1].type \notin {<<"StripeAuthenticationError">>, <<"StripePermissionError">>,
                                      <<"StripeAPIError">>} =>
                   /\ MessageKept(errors[1].message, outcome.val)
                   /\ Len(outcome.val) > Len(errors[1].message)
            /\ Len(stdout) = 1
        /\ (pc = "rejected" /\ errors = <<>>) =>
              /\ outcome.threw
              /\ apiCalls = <<>>
              /\ \/ outcome = getStripeKey(world, call.options, UNDEFINED)
                 \/ outcome.val \in {<<"Stripe secret key is required">>,
                                     <<"Invalid Stripe API key format">>}
        /\ pc = "done" => (errors = <<>> /\ outcome = Returned(UNDEFINED))

\* C16 witness: searchAccounts was rejected with an error of another Stripe type
C16_Witness ==
    /\ call.fn = "searchAccounts" /\ pc = "rejected"
    /\ errors = <<[type |-> <<"StripeConnectionError">>, message |-> <<"connect ETIMEDOUT">>]>>
    /\ outcome = Thrown(<<"Failed to search accounts: ", "connect ETIMEDOUT">>)

\* C16 witness: listAccounts met a bad key
C16_ListWitness ==
    /\ call.fn = "listAccounts" /\ pc = "rejected"
    /\ errors # <<>> /\ errors[1].type = <<"StripeAuthenticationError">>
    /\ outcome = Thrown(<<"Invalid Stripe API key. Please check your API key.">>)

\* C16 witness: a search without a term fails in the filter, not in Stripe
C16_TypeErrorWitness ==
    /\ call.fn = "searchAccounts" /\ pc = "rejected"
    /\ errors = <<TypeErrorOfTerm>>
    /\ outcome.val[1] = "Failed to search accounts: "

\* the accounts of some pages, one page after the other
RECURSIVE PagesData(_)
PagesData(ps) == IF ps = <<>> THEN <<>> ELSE Head(ps).data \o PagesData(Tail(ps))

LastId(page) == page.data[Len(page.data)].id

\* every request of searchAccounts has been answered
AllPagesRead == apiCalls # <<>> /\ Len(pages) = Len(apiCalls)

\* C24: searchAccounts asks for pages of limit 100 until a page reports has_more =
\* false; the first request carries no cursor, each later one carries
\* starting_after equal to the id of the last account of the page before it; the
\* search is run over the pages put together in order, so that every account of
\* the platform is searched exactly once.
C24_Pagination ==
    call.fn = "searchAccounts" =>
        /\ \A i \in 1..Len(apiCalls) :
              apiCalls[i].api = "accounts.list" /\ apiCalls[i].limit = 100
        /\ apiCalls # <<>> => apiCalls[1].starting_after = UNDEFINED
        /\ Len(pages) <= Len(apiCalls)
        /\ \A i \in 2..Len(apiCalls) :
              /\ pages[i - 1].data # <<>>
              /\ apiCalls[i].starting_after = LastId(pages[i - 1])
        /\ \A i \in 1..Len(pages) : pages[i].has_more <=> i < Len(apiCalls)
        /\ pc = "accounts.list" => Len(apiCalls) = Len(pages) + 1
        /\ allAccounts = PagesData(pages)
        /\ AllPagesRead =>
              /\ allAccounts = world.accounts
              /\ pc = "done" =>
                    stdout[Len(stdout)] = SearchOutcome(world.accounts, call.options).val
              /\ pc = "rejected" =>
                    errors = <<SearchOutcome(world.accounts, call.options).val>>

\* C24 witness: three pages of one account each were read and searched
C24_Witness ==
    /\ call.fn = "searchAccounts" /\ pc = "done"
    /\ Len(pages) = 3
    /\ apiCalls[3].starting_after = world.accounts[2].id
    /\ allAccounts = world.accounts
    /\ stdout[Len(stdout)].kind = "table"

\* C24 witness: a page of two accounts, then the last account in a page of its own
C24_TwoPerPageWitness ==
    /\ call.fn = "searchAccounts" /\ pc = "done"
    /\ Len(pages) = 2
    /\ Len(pages[1].data) = 2
    /\ apiCalls[2].starting_after = world.accounts[2].id
    /\ Len(allAccounts) = 3

-----------------------------------------------------------------------------
(* The command line program: the actions of its commands *)

\* the command functions whose code is not at hand return, or throw one of the
\* messages the commands of this program throw
SettingsCommands ==
    {"enableNetworkCostPassthrough", "disableNetworkCostPassthrough",
     "getNetworkCostPassthroughStatus", "deleteNetworkCostPassthroughScheme"}
SettingsOutcomes ==
    {Returned(UNDEFINED),
     Thrown(<<"Invalid Stripe API key. Please check your API key.">>),
     Thrown(<<"Connected account ID is required. Use --account option.">>),
     Thrown(EMPTY)}

\* the process ends with 1 whatever the command did
ExitAfter_AlwaysOne(result) == <<1>>

\* process.exit(1) in the catch of an action, else the process ends by itself
ExitAfter(result) == IF result.threw THEN <<1>> ELSE <<0>>

\* listProfiles: the lines it prints
ProfileListing(pm) == <<Line("profiles", pm.defaultProfile)>>

CliWorlds ==
    {[secrets |-> f, config |-> ConfigVet, env |-> [STRIPE_SECRET_KEY |-> UNDEFINED],
      accounts |-> a, pageCap |-> SearchLimit] :
        f \in {NoSecrets, SecretsWithAccounts}, a \in AccountLists}

InitCli ==
    /\ world \in CliWorlds
    /\ now = Today
    /\ call = NoCall
    /\ outcome = Pending
    /\ ImportIdle

cliUnused == <<manager, searchVars, world, now, platformAccount, connectedAccount, cards, originalRows, idx,
               validCards, results, successCount, failCount, processedCount, created,
               inflight, stripe, apiCalls, errors>>

\* `account settings network-costs ...`: the command function has run (lines 98-150)
SettingsAction ==
    /\ pc = "idle"
    /\ \E fn \in SettingsCommands, result \in SettingsOutcomes :
        /\ call' = [fn |-> fn, options |-> <<>>]
        /\ outcome' = result
        /\ pc' = IF result.threw THEN "rejected" ELSE "done"
    /\ UNCHANGED <<exitCode, stdout, stderr>>
    /\ UNCHANGED deleteVars
    /\ UNCHANGED cliUnused

\* `profile list`: loadProfiles and listProfiles (lines 165-169)
ProfileListAction ==
    /\ pc = "idle"
    /\ call' = [fn |-> "listProfiles", options |-> <<>>]
    /\ IF loadProfiles(world).threw
       THEN /\ pc' = "rejected"
            /\ outcome' = loadProfiles(world)
            /\ stdout' = stdout
       ELSE /\ pc' = "done"
            /\ outcome' = Returned(UNDEFINED)
            /\ stdout' = ProfileListing(loadProfiles(world).val)
    /\ UNCHANGED <<exitCode, stderr>>
    /\ UNCHANGED deleteVars
    /\ UNCHANGED cliUnused

\* the catch of an action: console.error('Error:', error.message); process.exit(1)
ActionCatches ==
    /\ pc = "rejected"
    /\ pc' = "exited"
    /\ stderr' = Append(stderr, Line("error", outcome.val))
    /\ exitCode' = ExitAfter(outcome)
    /\ UNCHANGED <<call, outcome, stdout>>
    /\ UNCHANGED deleteVars
    /\ UNCHANGED cliUnused

\* the action returned and nothing is left to run: the process ends
ProcessEnds ==
    /\ pc = "done"
    /\ pc' = "exited"
    /\ exitCode' = ExitAfter(outcome)
    /\ UNCHANGED <<call, outcome, stdout, stderr>>
    /\ UNCHANGED deleteVars
    /\ UNCHANGED cliUnused

\* `account list` calls listAccounts (lines 71-73), the other actions their own
NextCli ==
    \/ ListAccountsStart
    \/ AccountsListed
    \/ AccountsListFailed
    \/ SettingsAction
    \/ ProfileListAction
    \/ ActionCatches
    \/ ProcessEnds

SpecCli == InitCli /\ [][NextCli]_vars

ErrorLinesOf(lines) == {k \in 1..Len(lines) : lines[k].kind = "error"}

C17_ProfileWitness ==
    /\ call.fn = "listProfiles"
    /\ exitCode = <<0>>
    /\ stdout # <<>> /\ stderr = <<>>

\* C17 witness: `profile list` without a secrets file ended with 1
C17_ProfileErrorWitness ==
    /\ call.fn = "listProfiles"
    /\ exitCode = <<1>>
    /\ outcome.threw /\ stdout = <<>>


-----------------------------------------------------------------------------
(* ProfileManager on its own: loadProfiles, then one getProfileKey *)

\* sections as the .secrets file may write them: keys set, left empty, or absent
ProfileShapes == VetShapes \cup {Shape({"secret_key"}, {"key", "restricted_key"})}

ProfileSecrets ==
    {[exists |-> FALSE, lines |-> <<>>]} \cup
    {[exists |-> TRUE,
      lines |-> GlobalLines(g) \o SectionLines(VET, sv) \o SectionLines(DM, sd)] :
        g \in {UNDEFINED, VET, DM}, sv \in ProfileShapes,
        sd \in {NoSection, Shape({"key"}, {})}}

ProfileWorlds == {[secrets |-> s, config |-> c, env |-> [STRIPE_SECRET_KEY |-> UNDEFINED]] :
                     s \in ProfileSecrets, c \in Configs}

\* the names getProfileKey is asked for: none, a section, an inherited member
ProfileNames == {UNDEFINED, VET, DM} \cup InheritedNames

InitProfile ==
    /\ world \in ProfileWorlds
    /\ now = Today
    /\ call = NoCall
    /\ outcome = Pending
    /\ ImportIdle

profileUnused == <<exitCode, deleteVars, searchVars, world, now, stripe, platformAccount, connectedAccount,
                   cards, originalRows, idx, validCards, errors, results, successCount,
                   failCount, processedCount, created, apiCalls, inflight, stdout, stderr>>

\* what loadProfiles leaves in the manager: nothing when the file is missing, the
\* parsed lines when the check of the default profile throws, else the parsed
\* lines with the default profile of config.yml
ManagerAfterLoad(w, loaded) ==
    IF ~loaded.threw THEN loaded.val
    ELSE IF w.secrets.exists THEN ParseLines(NewManager, w.secrets.lines)
    ELSE NewManager

LoadProfiles ==
    /\ pc = "idle"
    /\ call' = [fn |-> "loadProfiles", options |-> <<>>, commandPath |-> NULL]
    /\ outcome' = loadProfiles(world)
    /\ manager' = ManagerAfterLoad(world, loadProfiles(world))
    /\ pc' = IF loadProfiles(world).threw THEN "rejected" ELSE "loaded"
    /\ UNCHANGED profileUnused

GetProfileKey ==
    /\ pc \in {"loaded", "rejected"}
    /\ call.fn = "loadProfiles"
    /\ \E profileName \in ProfileNames :
        /\ call' = [fn |-> "getProfileKey", options |-> profileName, commandPath |-> NULL]
        /\ outcome' = getProfileKey(manager, profileName)
    /\ UNCHANGED <<manager, pc>>
    /\ UNCHANGED profileUnused

NextProfile == LoadProfiles \/ GetProfileKey

SpecProfile == InitProfile /\ [][NextProfile]_vars

-----------------------------------------------------------------------------
(* Claims about the ProfileManager *)

\* the profile that a call of getProfileKey is about
AskedProfile == IF Falsy(call.options) THEN manager.defaultProfile ELSE call.options

\* a non-empty value of a field of a section
Filled(v) == v \notin {NULL, UNDEFINED, EMPTY}

\* restricted_key, else the legacy key, else null
ClaimedKey(profile) ==
    IF Filled(profile.restricted_key) THEN profile.restricted_key
    ELSE IF Filled(profile.key) THEN profile.key
    ELSE NULL

\* what C21 promises for the profile asked for
ClaimedKeyAnswer(name) ==
    IF name \in manager.names
    THEN outcome = Returned(ClaimedKey(ProfileOf(manager, name)))
    ELSE outcome = Thrown(<<"Profile '">> \o name \o <<"' not found">>)

\* C21 as stated: getProfileKey returns the restricted_key of the profile when it
\* is non-empty, else its legacy key when non-empty, else null, with the default
\* profile standing in for a missing name; for every name that has no section it
\* throws "Profile '<name>' not found".  The code answers null for a name such as
\* 'constructor', which no section defines.
C21_KeyOrNotFound ==
    (call.fn = "getProfileKey" /\ Truthy(AskedProfile)) => ClaimedKeyAnswer(AskedProfile)

\* C21 for the names that no object inherits: there the code does what is claimed
C21_KeyOrNotFoundOwnNames ==
    (call.fn = "getProfileKey" /\ Truthy(AskedProfile) /\ AskedProfile \notin InheritedNames)
        => ClaimedKeyAnswer(AskedProfile)

\* a section with an empty restricted_key and a filled key was asked for by default
C21_LegacyKeyWitness ==
    /\ call.fn = "getProfileKey"
    /\ Falsy(call.options)
    /\ manager.defaultProfile = VET
    /\ VET \in manager.names
    /\ ProfileOf(manager, VET).restricted_key = EMPTY
    /\ outcome = Returned(KeyOf(VET, "key"))

\* a name without a section was asked for and null came back
C21_InheritedWitness ==
    /\ call.fn = "getProfileKey"
    /\ call.options = <<"constructor">>
    /\ <<"constructor">> \notin manager.names
    /\ outcome = Returned(NULL)

\* C22: after loadProfiles has succeeded, getDefaultProfile() is the
\* default_platform of config.yml, null when there is none, whatever the
\* '[global] profile=' line of the secrets file says and whether or not a section
\* of that name exists
C22_DefaultFromConfig ==
    pc = "loaded" =>
        ManagerDefaultProfile(manager) =
            (IF Filled(world.config.default_platform)
             THEN world.config.default_platform ELSE NULL)

\* the secrets file names one default, config.yml another that has no section
C22_Witness ==
    /\ pc = "loaded"
    /\ \E i \in 1..Len(world.secrets.lines) :
          world.secrets.lines[i] = KVLine("profile", VET)
    /\ world.config.default_platform = DM
    /\ DM \notin manager.names
    /\ ManagerDefaultProfile(manager) = DM

\* an empty secrets file, and config.yml names a default
C22_EmptyFileWitness ==
    /\ pc = "loaded"
    /\ world.secrets.lines = <<>>
    /\ ManagerDefaultProfile(manager) = VET

\* a secrets file with a '[global] profile=' line, and config.yml names no default
C22_NullWitness ==
    /\ pc = "loaded"
    /\ \E i \in 1..Len(world.secrets.lines) :
          world.secrets.lines[i] = KVLine("profile", VET)
    /\ ManagerDefaultProfile(manager) = NULL


-----------------------------------------------------------------------------
(* Claims about the key type of a command *)

\* the key type config.yml asks of a command, 'restricted' when it names none
RequiredTypeOf(w, commandPath) ==
    IF commandPath \in DOMAIN w.config.commands
    THEN w.config.commands[commandPath] ELSE <<"restricted">>

PrefixOfType(type) == IF type = <<"secret">> THEN "sk_" ELSE "rk_"

ExplicitKeyForCommand ==
    KeyCallDone /\ Truthy(call.options.key) /\ Truthy(call.commandPath)

\* C25: getStripeKey with an explicit key and a command path returns the key only
\* when its prefix is the one of the key type the command requires (sk_ for
\* 'secret', rk_ for 'restricted', which is what every command not named in
\* config.yml requires), and raises an error that names the command otherwise.
C25_KeyTypeEnforced ==
    ExplicitKeyForCommand =>
        IF call.options.key[1] = PrefixOfType(RequiredTypeOf(world, call.commandPath))
        THEN outcome = Returned(call.options.key)
        ELSE /\ outcome.threw
             /\ SubSeq(outcome.val, 1, 2) = <<"Command '">> \o call.commandPath

\* C25 witness: a secret key for the card import, which asks for a restricted one
C25_Witness ==
    /\ ExplicitKeyForCommand
    /\ call.commandPath = CmdImport
    /\ call.options.key[1] = "sk_"
    /\ outcome.threw

\* C25 witness: a restricted key for a command that config.yml marks as secret
C25_SecretWitness ==
    /\ ExplicitKeyForCommand
    /\ call.commandPath = CmdNetworkCost
    /\ call.options.key[1] = "rk_"
    /\ outcome.threw

\* C25 witness: the key of the right type is returned
C25_AcceptedWitness ==
    /\ ExplicitKeyForCommand
    /\ call.commandPath = CmdNetworkCost
    /\ outcome = Returned(<<"sk_", "--key">>)

\* C25 in importCards: with a key of the wrong type the call is rejected before a
\* client exists and before any request is sent
C25_NoClientOnMismatch ==
    (call.fn = "importCards" /\ Truthy(call.options.key) /\ call.options.key[1] # "rk_") =>
        /\ pc = "rejected"
        /\ outcome.threw
        /\ apiCalls = <<>>
        /\ stripe = NULL

C25_MismatchInImport ==
    /\ call.fn = "importCards"
    /\ call.options.key = <<"sk_", "--key">>
    /\ pc = "rejected"


-----------------------------------------------------------------------------
(* Claims about the order of the Stripe calls of an import *)

StepsOfRow == <<"customers.create", "paymentMethods.create", "setupIntents.create">>

\* the place of the first call of row k in apiCalls
FirstCallOfRow(k) == CHOOSE j \in CallsOfRow(k) : \A m \in CallsOfRow(k) : j <= m

\* C26: importCards handles its rows strictly one at a time: at most one Stripe
\* call is in flight at any moment, it is the call sent last, and while a call of
\* a row is in flight every row before it has its result, so that the first call
\* of row i+1 starts only after the calls of row i have completed or failed.
C26_OneCallAtATime ==
    ImportCalled =>
        /\ Cardinality(inflight) <= 1
        /\ \A c \in inflight :
              /\ c = apiCalls[Len(apiCalls)]
              /\ c.row = idx
              /\ pc = c.api
              /\ Len(results) = idx - 1
        /\ \A j, k \in 1..Len(apiCalls) : j < k => apiCalls[j].row <= apiCalls[k].row
        /\ pc \notin StripeCallStates => inflight = {}

\* C26 witness: the first call of the second row is in flight after the three
\* calls of the first row
C26_Witness ==
    /\ ImportCalled
    /\ Len(apiCalls) = 4
    /\ inflight = {apiCalls[4]}
    /\ apiCalls[4].row = 2 /\ apiCalls[4].api = "customers.create"
    /\ apiCalls[3].row = 1
    /\ Len(results) = 1

\* C26 witness: the second row starts after a call of the first row failed
C26_AfterFailureWitness ==
    /\ ImportCalled
    /\ Len(apiCalls) = 2
    /\ apiCalls[1].row = 1 /\ apiCalls[2].row = 2
    /\ inflight = {apiCalls[2]}
    /\ results[1].stripe_status = <<"failed">>

\* C27: the calls of a row are the customer, then the payment method, then the
\* setup intent, each at most once; a call is made only when the calls before it
\* have given their objects; a row has the status 'success' only when all three
\* calls were made and answered, and then the ids of its customer, payment method
\* and setup intent in the result are not empty.
C27_CallOrderPerRow ==
    ImportCalled =>
        /\ \A k \in 1..Len(cards) : \A j \in CallsOfRow(k) :
              /\ j - FirstCallOfRow(k) + 1 <= Len(StepsOfRow)
              /\ apiCalls[j].api = StepsOfRow[j - FirstCallOfRow(k) + 1]
        /\ pc = "customers.create" =>
              Falsy(created.customer.id) /\ Falsy(created.paymentMethod.id)
        /\ pc = "paymentMethods.create" =>
              Truthy(created.customer.id) /\ Falsy(created.paymentMethod.id)
        /\ pc = "setupIntents.create" =>
              Truthy(created.customer.id) /\ Truthy(created.paymentMethod.id)
        /\ \A k \in 1..Len(results) :
              results[k].stripe_status = <<"success">> =>
                  /\ Cardinality(CallsOfRow(k)) = Len(StepsOfRow)
                  /\ results[k].stripe_customer_id = CustomerOf(k).id
                  /\ results[k].stripe_payment_method_id = <<"pm_", RowDigit(k)>>
                  /\ results[k].stripe_setup_intent_id = <<"seti_", RowDigit(k)>>
                  /\ Truthy(results[k].stripe_customer_id)
                  /\ Truthy(results[k].stripe_payment_method_id)
                  /\ Truthy(results[k].stripe_setup_intent_id)
        /\ \A k \in 1..Len(results) :
              /\ CallsOfRow(k) = {} => results[k].stripe_status = <<"invalid">>
              /\ Cardinality(CallsOfRow(k)) \in {1, 2} =>
                     results[k].stripe_status = <<"failed">>

\* C27 witness: a row was imported with its three calls in order
C27_Witness ==
    /\ ImportCalled
    /\ Len(results) >= 1
    /\ results[1].stripe_status = <<"success">>
    /\ Len(apiCalls) >= 3
    /\ apiCalls[1].api = "customers.create"
    /\ apiCalls[2].api = "paymentMethods.create"
    /\ apiCalls[3].api = "setupIntents.create"

\* C27 witness: the payment method was refused, and no setup intent was asked for
C27_StoppedWitness ==
    /\ ImportCalled
    /\ pc = "done"
    /\ Len(results) = 1
    /\ results[1].stripe_status = <<"failed">>
    /\ Len(apiCalls) = 2
    /\ apiCalls[2].api = "paymentMethods.create"

====
